---- MODULE Spec2Model ----
(***************************************************************************)
(* Telemetry call-site detection: the learned/fallback detector            *)
(* (src/src/llm/otel_analyzer.py) and the multi-language detector          *)
(* (src/multilang_analyzer.py).                                            *)
(*                                                                         *)
(* File text is a sequence of lexemes (strings); "\n" is the newline       *)
(* lexeme.  Offsets, line numbers and columns count lexemes the way the    *)
(* code counts characters.  A regular expression is a sequence of          *)
(* branches (top-level alternation, tried in order); a branch is a         *)
(* sequence of atoms [cls, rep, cap]: a lexeme class, a quantifier         *)
(* ("one", "star", "plus" greedy, "lazy" reluctant star) and whether the   *)
(* atom is capture group 1.  Matching is leftmost, first alternative       *)
(* first, with backtracking, as Python's re does it.                       *)
(***************************************************************************)
EXTENDS Integers, Sequences, FiniteSets, TLC

VARIABLES
    pc,                 \* which entry point returned last ("idle" before any call)
    learned_patterns,   \* SmartPatternDetector.learned_patterns (dict, in insertion order)
    processed_patterns, \* MultiLanguagePatternDetector.processed_patterns
    calls,              \* number of find_patterns calls made on the multi-language detector
    rescanned,          \* the last find_patterns call scanned the file of the call before it
    threads,            \* the find_patterns calls in progress on one detector, per caller
    code,               \* the file text of the last call
    file_path,          \* the file path of the last call
    arg_line_num,       \* the line_num argument of the last _extract_span_context call
    learned_detected,   \* _detect_with_patterns(..., learned_patterns, "learned_from_kb")
    fallback_detected,  \* _detect_with_patterns(..., fallback_patterns, "fallback_pattern")
    detected_patterns,  \* the list find_patterns returned
    language,           \* what _detect_language returned
    span_context,       \* what _extract_span_context returned
    arg_current_line,   \* the current_line argument of the last _get_function_name call
    function_name,      \* what the last _get_function_name call returned
    raised,             \* the exception that left the last call ("none": it returned)
    outcomes,           \* what the retrieval and verdict calls of the last analysis did
    result,             \* the dict the analyzer returned
    call_log,           \* the retrieval and verdict calls of the last analysis, in order
    directory,          \* the files the last directory scan found, in its order
    results,            \* the per-file results the last directory scan recorded
    pipeline            \* a RAGPipeline: its analyzer, its disk state and its last call

smartVars == <<learned_patterns, learned_detected, fallback_detected>>
multiVars == <<processed_patterns, calls, rescanned, threads>>
pureVars == <<arg_line_num, language, span_context, arg_current_line,
             function_name>>
analyzerVars == <<raised, outcomes, result, call_log>>
scanVars == <<directory, results, pipeline>>
vars == <<pc, code, file_path, detected_patterns, smartVars, multiVars, pureVars,
          analyzerVars, scanVars>>

\* no analyzer call has been made
AnalyzerIdle ==
    /\ raised = "none" /\ outcomes = <<>> /\ result = <<>> /\ call_log = <<>>
    /\ directory = <<>> /\ results = <<>> /\ pipeline = <<>>

(***************************************************************************)
(* Bounds of the model.                                                    *)
(***************************************************************************)
MaxLines == 3        \* lines of a file given to the learned/fallback detector
MaxLearned == 2      \* rules learned from the knowledge base
MaxSigLen == 3       \* lexemes of a file given to _detect_language alone
MaxCtxLines == 4     \* lines of a file given to _extract_span_context alone
MaxFileLines == 2    \* lines of a file given to the multi-language detector
MaxCalls == 2        \* find_patterns calls on one multi-language detector
MaxCandidates == 2   \* candidates of a file given to an analyzer
MaxDirFiles == 2     \* files found by one directory scan
MaxKbFiles == 1      \* markdown files in the knowledge-base directory
MaxScopeLines == 32  \* lines of a file given to _get_function_name alone

(***************************************************************************)
(* Lexemes.                                                                *)
(***************************************************************************)
NL == "\n"
Quoted == {"'GET /users'", "'validate_item'", "'user.id'", "'orders %s'",
           "'DELETE /users'"}
FormatQuoted == {"'orders %s'"}
StartSpanCall == {"tracer.start_span("}
RecordCalls == {"span.record_exception(", "span.set_status("}
DefHeaders == {"def validate_cart_items", "def checkout"}
AttributeCalls == {"attribute.String(", "attribute.Int(", "attribute.Float64(",
                   "attribute.Bool("}
PythonLexemes ==
    StartSpanCall \cup RecordCalls \cup DefHeaders
        \cup {"with ", "raise", "pass", ".start_as_current_span(",
              ".create_counter(", ".create_histogram("}
GoLexemes ==
    AttributeCalls
        \cup {"tracer.Start(ctx,", "TRACER.START(CTX,", "trace.WithSpanKind(",
              ".NewCounter(", ".NewHistogram(", "span.SetAttributes(",
              "span.AddEvent(", "fmt.Sprintf(", "func handleCheckout"}
JsLexemes == {"tracer.startSpan(", ".startActiveSpan(", ".createCounter({name:",
              "function handler", "const handler ="}
JavaLexemes == {"tracer", ".spanBuilder(", ".counterBuilder(", "public void checkout("}
CsLexemes == {"activitySource.StartActivity(", ".CreateCounter<long>("}
ContextLexemes == {"api", "API", "db.query(", "kafka.publish("}
SigLexemes == {"package main", "import (", "import ", "def checkout",
               "function ", "const ", "class ", "public class "}
Sigma ==
    {NL, " ", ":", ",", ")"}
        \cup Quoted \cup PythonLexemes \cup GoLexemes \cup JsLexemes
        \cup JavaLexemes \cup CsLexemes \cup ContextLexemes \cup SigLexemes
Space == {" ", NL}

\* str.lower() / re.IGNORECASE folding of a lexeme
Lower(lex) ==
    CASE lex = "'GET /users'" -> "'get /users'"
      [] lex = "'DELETE /users'" -> "'delete /users'"
      [] lex = "tracer.Start(ctx," -> "tracer.start(ctx,"
      [] lex = "TRACER.START(CTX," -> "tracer.start(ctx,"
      [] lex = "trace.WithSpanKind(" -> "trace.withspankind("
      [] lex = ".NewCounter(" -> ".newcounter("
      [] lex = ".NewHistogram(" -> ".newhistogram("
      [] lex = "span.SetAttributes(" -> "span.setattributes("
      [] lex = "attribute.String(" -> "attribute.string("
      [] lex = "attribute.Int(" -> "attribute.int("
      [] lex = "attribute.Float64(" -> "attribute.float64("
      [] lex = "attribute.Bool(" -> "attribute.bool("
      [] lex = "span.AddEvent(" -> "span.addevent("
      [] lex = "fmt.Sprintf(" -> "fmt.sprintf("
      [] lex = "func handleCheckout" -> "func handlecheckout"
      [] lex = "tracer.startSpan(" -> "tracer.startspan("
      [] lex = ".startActiveSpan(" -> ".startactivespan("
      [] lex = ".createCounter({name:" -> ".createcounter({name:"
      [] lex = ".spanBuilder(" -> ".spanbuilder("
      [] lex = ".counterBuilder(" -> ".counterbuilder("
      [] lex = "activitySource.StartActivity(" -> "activitysource.startactivity("
      [] lex = ".CreateCounter<long>(" -> ".createcounter<long>("
      [] lex = "API" -> "api"
      [] OTHER -> lex

(***************************************************************************)
(* Sequence helpers.                                                       *)
(***************************************************************************)
Max(a, b) == IF a >= b THEN a ELSE b
Min(a, b) == IF a <= b THEN a ELSE b

RECURSIVE Flatten(_)
Flatten(ss) == IF ss = <<>> THEN <<>> ELSE Head(ss) \o Flatten(Tail(ss))

RECURSIVE SelectSeqBy(_, _)
\* the elements of s whose index is in keep, in order
SelectSeqBy(s, keep) ==
    IF s = <<>> THEN <<>>
    ELSE LET n == Len(s)
             front == SelectSeqBy(SubSeq(s, 1, n - 1), keep)
         IN IF n \in keep THEN Append(front, s[n]) ELSE front

\* Python slice s[lo:hi] with 0 <= lo, hi <= len(s)
Slice(s, lo, hi) == SubSeq(s, lo + 1, hi)

\* the newline count of the whole text instead of the text before offset n
Mut_count_newlines_of_text(text, n) ==
    Cardinality({i \in 1..Len(text) : text[i] = NL})

RECURSIVE CountNL(_, _)
\* code[:n].count('\n')
CountNL(text, n) ==
    IF n = 0 THEN 0
    ELSE CountNL(text, n - 1) + (IF text[n] = NL THEN 1 ELSE 0)

\* the offset of the first character of the line of offset n instead of the
\* index of the newline before it
Mut_rfind_line_start(text, n) ==
    LET before == {i \in 1..n : text[i] = NL}
    IN IF before = {} THEN 0
       ELSE CHOOSE i \in before : \A j \in before : j <= i

RECURSIVE RFindNL(_, _)
\* code.rfind('\n', 0, n): 0-based index of the last newline before offset n, or -1
RFindNL(text, n) ==
    IF n = 0 THEN -1
    ELSE IF text[n] = NL THEN n - 1 ELSE RFindNL(text, n - 1)

RECURSIVE Split(_)
\* code.split('\n')
Split(text) ==
    LET nls == {i \in 1..Len(text) : text[i] = NL}
    IN IF nls = {} THEN <<text>>
       ELSE LET i == CHOOSE j \in nls : \A k \in nls : j <= k
            IN <<SubSeq(text, 1, i - 1)>> \o Split(SubSeq(text, i + 1, Len(text)))

RECURSIVE Join(_)
\* "\n".join(lines)
Join(ls) ==
    IF ls = <<>> THEN <<>>
    ELSE IF Len(ls) = 1 THEN ls[1]
    ELSE ls[1] \o <<NL>> \o Join(Tail(ls))

(***************************************************************************)
(* The regular-expression engine (re.finditer).                            *)
(***************************************************************************)
Lit(lex) == [cls |-> {lex}, rep |-> "one", cap |-> FALSE]
One(cls) == [cls |-> cls, rep |-> "one", cap |-> FALSE]
Cap(cls) == [cls |-> cls, rep |-> "one", cap |-> TRUE]
Star(cls) == [cls |-> cls, rep |-> "star", cap |-> FALSE]
Plus(cls) == [cls |-> cls, rep |-> "plus", cap |-> FALSE]
Lazy(cls) == [cls |-> cls, rep |-> "lazy", cap |-> FALSE]

\* whether a lexeme belongs to a class, folding case under re.IGNORECASE
InCls(lex, cls, ic) ==
    IF ic THEN Lower(lex) \in {Lower(c) : c \in cls} ELSE lex \in cls

RECURSIVE Reach(_, _, _, _)
\* the furthest position q >= p with text[p..q-1] all in cls
Reach(text, p, cls, ic) ==
    IF p <= Len(text) /\ InCls(text[p], cls, ic)
    THEN Reach(text, p + 1, cls, ic)
    ELSE p

RECURSIVE MatchFrom(_, _, _, _, _, _)
RECURSIVE TryDown(_, _, _, _, _, _, _)
RECURSIVE TryUp(_, _, _, _, _, _, _)
\* atoms i.. of branch br against text from position p (1-based): <<end, cap>>
\* of the first successful path, or << >>
MatchFrom(br, i, text, p, cap, ic) ==
    IF i > Len(br) THEN <<p, cap>>
    ELSE LET a == br[i]
             far == Reach(text, p, a.cls, ic)
         IN CASE a.rep = "one" ->
                   IF p <= Len(text) /\ InCls(text[p], a.cls, ic)
                   THEN MatchFrom(br, i + 1, text, p + 1,
                                  IF a.cap THEN p ELSE cap, ic)
                   ELSE <<>>
              [] a.rep = "star" -> TryDown(br, i, text, p, far, cap, ic)
              [] a.rep = "plus" ->
                   IF far > p THEN TryDown(br, i, text, p + 1, far, cap, ic)
                   ELSE <<>>
              [] a.rep = "lazy" -> TryUp(br, i, text, p, far, cap, ic)

\* greedy: the longest repetition first
TryDown(br, i, text, lo, q, cap, ic) ==
    IF q < lo THEN <<>>
    ELSE LET r == MatchFrom(br, i + 1, text, q, cap, ic)
         IN IF r # <<>> THEN r ELSE TryDown(br, i, text, lo, q - 1, cap, ic)

\* reluctant: the shortest repetition first
TryUp(br, i, text, q, hi, cap, ic) ==
    IF q > hi THEN <<>>
    ELSE LET r == MatchFrom(br, i + 1, text, q, cap, ic)
         IN IF r # <<>> THEN r ELSE TryUp(br, i, text, q + 1, hi, cap, ic)

RECURSIVE MatchAt(_, _, _, _)
\* the first branch of rx that matches at p
MatchAt(rx, text, p, ic) ==
    IF rx = <<>> THEN <<>>
    ELSE LET r == MatchFrom(Head(rx), 1, text, p, 0, ic)
         IN IF r # <<>> THEN r ELSE MatchAt(Tail(rx), text, p, ic)

RECURSIVE FindIterFrom(_, _, _, _)
FindIterFrom(rx, text, p, ic) ==
    IF p > Len(text) THEN <<>>
    ELSE LET r == MatchAt(rx, text, p, ic)
         IN IF r = <<>> THEN FindIterFrom(rx, text, p + 1, ic)
            ELSE <<[start |-> p - 1, end |-> r[1] - 1, cap |-> r[2]]>>
                 \o FindIterFrom(rx, text, IF r[1] > p THEN r[1] ELSE p + 1, ic)

\* list(re.finditer(regex, code, flags)): the non-overlapping matches, left to
\* right; start and end are 0-based offsets, cap the 1-based position of group 1
FindIter(rx, text, ic) == FindIterFrom(rx, text, 1, ic)

(***************************************************************************)
(* SmartPatternDetector (src/src/llm/otel_analyzer.py).                    *)
(***************************************************************************)
AnyLexeme == Sigma    \* "." under re.DOTALL

\* look-back of SmartPatternDetector._get_function_name
SmartLookBack == 30

\* group 1 of r'def\s+(\w+)' on a header lexeme
DefName(lex) ==
    CASE lex = "def validate_cart_items" -> "validate_cart_items"
      [] lex = "def checkout" -> "checkout"
      [] OTHER -> ""

\* re.match(r'\s*def\s+(\w+)', line): the captured name, or "" when no match
SmartHeaderMatch(line) ==
    LET p == Reach(line, 1, Space, FALSE)
    IN IF p <= Len(line) /\ line[p] \in DefHeaders THEN DefName(line[p]) ELSE ""

RECURSIVE SmartFunctionScan(_, _, _)
\* for i in range(i, stop, -1): lines[i] is the 0-based line i
SmartFunctionScan(lines, i, stop) ==
    IF i <= stop THEN "unknown"
    ELSE IF i < Len(lines) /\ SmartHeaderMatch(lines[i + 1]) # ""
         THEN SmartHeaderMatch(lines[i + 1])
         ELSE SmartFunctionScan(lines, i - 1, stop)

Smart_get_function_name(lines, current_line) ==
    SmartFunctionScan(lines, current_line, Max(0, current_line - SmartLookBack))

\* SmartPatternDetector.fallback_patterns, in dict order
fallback_patterns == <<
    [name |-> "span_creation", valid |-> TRUE,
     regex |-> << <<One(StartSpanCall), One(Quoted)>>,
                  <<Lit("with "), Star(AnyLexeme), One(StartSpanCall), One(Quoted)>> >>,
     violation_type |-> "span_creation", severity |-> "medium",
     kb_rule |-> "Pattern-based detection"],
    [name |-> "nested_spans", valid |-> TRUE,
     regex |-> << <<Lit("with "), Star(AnyLexeme), One(StartSpanCall), Star(AnyLexeme), Lit(":"),
                    Star(Space), Lit(NL), Plus(Space),
                    Lit("with "), Star(AnyLexeme), One(StartSpanCall)>>,
                  <<Lit("with "), Star(AnyLexeme), One(StartSpanCall), Star(AnyLexeme), Lit(":"),
                    Star(Space), Lit(NL), Lazy(AnyLexeme), Lit(NL), Plus(Space),
                    Lit("with "), Star(AnyLexeme), One(StartSpanCall)>> >>,
     violation_type |-> "span_boundary", severity |-> "medium",
     kb_rule |-> "Pattern-based detection"],
    [name |-> "span_in_function", valid |-> TRUE,
     regex |-> << <<One(DefHeaders), Lazy(AnyLexeme), Lit(":"), Star(Space),
                    Lit("with "), Star(AnyLexeme), One(StartSpanCall)>>,
                  <<One(DefHeaders), Lazy(AnyLexeme), Lit(":"), Star(Space),
                    Lazy(AnyLexeme), Lit(NL), Star(Space),
                    Lit("with "), Star(AnyLexeme), One(StartSpanCall)>> >>,
     violation_type |-> "span_boundary", severity |-> "medium",
     kb_rule |-> "Pattern-based detection"],
    [name |-> "error_record_and_raise", valid |-> TRUE,
     regex |-> << <<One(RecordCalls), Star(AnyLexeme), Lit(NL), Star(AnyLexeme), Lit("raise")>> >>,
     violation_type |-> "error_handling", severity |-> "medium",
     kb_rule |-> "Pattern-based detection"] >>

\* a candidate whose confidence does not look at detection_method
Mut_candidate_flat_confidence(text, lines, rule, m, detection_method) ==
    LET line_num == CountNL(text, m.start) + 1
    IN [pattern_name |-> rule.name,
        line_number |-> line_num,
        column |-> m.start - RFindNL(text, m.start),
        offset |-> m.start,
        matched_text |-> Slice(text, m.start, m.end),
        violation_type |-> rule.violation_type,
        severity |-> rule.severity,
        kb_rule |-> rule.kb_rule,
        context_lines |-> Slice(lines, Max(0, line_num - 4), Min(Len(lines), line_num + 3)),
        function_name |-> Smart_get_function_name(lines, line_num - 1),
        detection_method |-> detection_method,
        confidence |-> 80]

\* one candidate dict of _detect_with_patterns; offset is match.start(), which
\* the dict holds only through line_number and column
SmartCandidate(text, lines, rule, m, detection_method) ==
    LET line_num == CountNL(text, m.start) + 1
    IN [pattern_name |-> rule.name,
        line_number |-> line_num,
        column |-> m.start - RFindNL(text, m.start),
        offset |-> m.start,
        matched_text |-> Slice(text, m.start, m.end),
        violation_type |-> rule.violation_type,
        severity |-> rule.severity,
        kb_rule |-> rule.kb_rule,
        context_lines |-> Slice(lines, Max(0, line_num - 4), Min(Len(lines), line_num + 3)),
        function_name |-> Smart_get_function_name(lines, line_num - 1),
        detection_method |-> detection_method,
        confidence |-> IF detection_method = "learned_from_kb" THEN 90 ELSE 80]

\* the candidates of one rule: none when re.finditer raises re.error
SmartRuleCandidates(text, lines, rule, detection_method) ==
    IF ~rule.valid THEN <<>>
    ELSE LET ms == FindIter(rule.regex, text, FALSE)
         IN [k \in 1..Len(ms) |-> SmartCandidate(text, lines, rule, ms[k], detection_method)]

\* the exception that leaves _detect_with_patterns: the loop catches
\* re.error only, so the first rule whose expression fails in another way
\* ends the scan ("none": the scan returns)
DetectRaised(patterns) ==
    LET failing == {r \in 1..Len(patterns) : "error" \in DOMAIN patterns[r]}
    IN IF failing = {} THEN "none"
       ELSE patterns[CHOOSE r \in failing : \A q \in failing : r <= q].error

_detect_with_patterns(text, lines, patterns, detection_method) ==
    Flatten([r \in 1..Len(patterns) |->
                SmartRuleCandidates(text, lines, patterns[r], detection_method)])

\* _merge_patterns comparing the match position instead of the line
Mut_merge_by_offset(learned, fallback) ==
    LET learned_at == {learned[k].offset : k \in 1..Len(learned)}
    IN SelectSeqBy(fallback,
                   {k \in 1..Len(fallback) : fallback[k].offset \notin learned_at})

\* _merge_patterns keeping the fallback list only when nothing was learned
Mut_merge_all_or_nothing(learned, fallback) ==
    IF learned = <<>> THEN fallback ELSE <<>>

\* _merge_patterns without the line test
Mut_merge_unfiltered(learned, fallback) == fallback

_merge_patterns(learned, fallback) ==
    LET learned_lines == {learned[k].line_number : k \in 1..Len(learned)}
    IN SelectSeqBy(fallback,
                   {k \in 1..Len(fallback) : fallback[k].line_number \notin learned_lines})

(***************************************************************************)
(* Inputs of the learned/fallback detector.                                *)
(***************************************************************************)
\* rules the pattern-extraction call may have produced (_extract_patterns_with_llm)
LearnedPool == {
    [name |-> "kb_span_creation", valid |-> TRUE,
     regex |-> << <<One(StartSpanCall), One(Quoted)>> >>,
     violation_type |-> "span_creation", severity |-> "high", kb_rule |-> "kb"],
    [name |-> "kb_span_naming", valid |-> TRUE,
     regex |-> << <<One(StartSpanCall)>> >>,
     violation_type |-> "span_naming", severity |-> "medium", kb_rule |-> "Extracted from KB"],
    [name |-> "kb_broken", valid |-> FALSE,       \* "(": re.finditer raises re.error
     regex |-> <<>>,
     violation_type |-> "span_boundary", severity |-> "low", kb_rule |-> "kb"],
    [name |-> "kb_overflow", valid |-> FALSE,     \* "a{99999999999}": OverflowError
     error |-> "OverflowError", regex |-> <<>>,
     violation_type |-> "span_boundary", severity |-> "low", kb_rule |-> "kb"] }

\* dicts of at most MaxLearned rules: keys (names) are distinct
LearnedSets ==
    {ps \in UNION {[1..n -> LearnedPool] : n \in 0..MaxLearned} :
        \A i, j \in DOMAIN ps : i # j => ps[i].name # ps[j].name}

PyLines == {
    <<"def checkout", ":">>,
    <<" ", "with ", "tracer.start_span(", "'validate_item'", ":">>,
    <<"tracer.start_span(", "'GET /users'", "tracer.start_span(", "'validate_item'">>,
    <<"def validate_cart_items", ":", " ", "span.record_exception(">>,
    <<" ", "raise">> }

PyTexts == {Join(ls) : ls \in UNION {[1..n -> PyLines] : n \in 1..MaxLines}}

(***************************************************************************)
(* The learned/fallback detector as a state machine.                       *)
(***************************************************************************)
SmartInit ==
    /\ pc = "idle"
    /\ AnalyzerIdle
    /\ learned_patterns \in LearnedSets
    /\ code = <<>>
    /\ file_path = ""
    /\ learned_detected = <<>>
    /\ fallback_detected = <<>>
    /\ detected_patterns = <<>>
    /\ processed_patterns = {}
    /\ calls = 0
    /\ rescanned = FALSE
    /\ threads = <<>>
    /\ arg_line_num = 0
    /\ arg_current_line = 0
    /\ function_name = ""
    /\ language = ""
    /\ span_context = <<>>

\* SmartPatternDetector.find_patterns(code, file_path)
SmartFindPatterns(text, path) ==
    /\ pc = "idle"
    /\ code' = text
    /\ file_path' = path
    /\ raised' = DetectRaised(learned_patterns)
    /\ IF raised' = "none"
       THEN /\ pc' = "smart_done"
            /\ learned_detected' =
                  IF learned_patterns # <<>>
                  THEN _detect_with_patterns(text, Split(text), learned_patterns,
                                             "learned_from_kb")
                  ELSE <<>>
            /\ fallback_detected' =
                  _detect_with_patterns(text, Split(text), fallback_patterns,
                                        "fallback_pattern")
            /\ detected_patterns' =
                  learned_detected' \o _merge_patterns(learned_detected', fallback_detected')
       ELSE /\ pc' = "smart_raised"
            /\ UNCHANGED <<learned_detected, fallback_detected, detected_patterns>>
    /\ UNCHANGED <<learned_patterns, multiVars, pureVars, outcomes, result, call_log,
                   scanVars>>

SmartNext == \E text \in PyTexts : SmartFindPatterns(text, "sample.py")

SpecSmart == SmartInit /\ [][SmartNext]_vars

(***************************************************************************)
(* Claims about the learned/fallback merge.                                *)
(***************************************************************************)
SmartDone == pc = "smart_done"
LinesOf(cands) == {cands[k].line_number : k \in 1..Len(cands)}
OnLine(cands, l) == {k \in 1..Len(cands) : cands[k].line_number = l}
IsLearned(c) == c.detection_method = "learned_from_kb"
IsFallback(c) == c.detection_method = "fallback_pattern"

\* C1: in the list find_patterns returns, no fallback_pattern candidate is on
\* the line of a learned_from_kb candidate.
C1_NoFallbackOnLearnedLine ==
    SmartDone =>
        \A i, j \in 1..Len(detected_patterns) :
            IsFallback(detected_patterns[i]) /\ IsLearned(detected_patterns[j])
                => detected_patterns[i].line_number # detected_patterns[j].line_number

\* C1 witness: a fallback hit on a learned line was suppressed while another
\* fallback hit, on a line without learned hits, was returned.
C1_Witness ==
    /\ SmartDone
    /\ \E k \in 1..Len(fallback_detected) :
          fallback_detected[k].line_number \in LinesOf(learned_detected)
    /\ \E i, j \in 1..Len(detected_patterns) :
          IsFallback(detected_patterns[i]) /\ IsLearned(detected_patterns[j])

\* C2: find_patterns returns the learned list, in order, followed by the
\* fallback candidates whose line carries no learned candidate, in order; with
\* no learned candidate it returns the whole fallback list.
C2_MergeIsLearnedThenUncovered ==
    SmartDone =>
        LET Uncovered(c) == \A k \in 1..Len(learned_detected) :
                                learned_detected[k].line_number # c.line_number
        IN /\ detected_patterns
                = learned_detected \o SelectSeq(fallback_detected, Uncovered)
           /\ learned_detected = <<>> => detected_patterns = fallback_detected

\* C2 witness: learned hits, a suppressed fallback hit and two surviving
\* fallback hits.
C2_Witness ==
    /\ SmartDone
    /\ learned_detected # <<>>
    /\ Len(detected_patterns) >= Len(learned_detected) + 2
    /\ Len(detected_patterns) < Len(learned_detected) + Len(fallback_detected)

\* C3 as stated: a line with a learned hit carries at most one candidate in
\* the merged output.
C3_AtMostOnePerLearnedLine ==
    SmartDone =>
        \A l \in LinesOf(learned_detected) :
            Cardinality(OnLine(detected_patterns, l)) <= 1

\* C3 amended: on a line with a learned hit the merged output holds exactly
\* the learned hits of that line (one or more) and no fallback hit.
C3_LearnedLineHoldsOnlyLearned ==
    SmartDone =>
        \A l \in LinesOf(learned_detected) :
            /\ Cardinality(OnLine(detected_patterns, l))
                 = Cardinality(OnLine(learned_detected, l))
            /\ \A k \in OnLine(detected_patterns, l) : IsLearned(detected_patterns[k])

\* C3 witness: a line with two learned hits at different columns on which a
\* fallback hit was suppressed.
C3_Witness ==
    /\ SmartDone
    /\ \E l \in LinesOf(learned_detected) :
          /\ \E i, j \in OnLine(learned_detected, l) :
                learned_detected[i].offset # learned_detected[j].offset
          /\ OnLine(fallback_detected, l) # {}

\* C5 as stated: within one pass of _detect_with_patterns no two candidates
\* share line number and match-start offset.
C5_PassHasNoRepeatedPosition ==
    SmartDone =>
        \A cands \in {learned_detected, fallback_detected} :
            \A i, j \in 1..Len(cands) :
                i # j => \/ cands[i].line_number # cands[j].line_number
                         \/ cands[i].offset # cands[j].offset

(***************************************************************************)
(* MultiLanguagePatternDetector._detect_language                           *)
(* (src/multilang_analyzer.py).                                            *)
(***************************************************************************)
\* Path(file_path).suffix: the last dot-suffix of the final path component;
\* empty for a name without a dot, a name that only starts with its dot, and
\* a name in a dotted directory
Suffix(path) ==
    CASE path = "main.go" -> ".go"
      [] path = "MAIN.GO" -> ".GO"
      [] path = "app.py" -> ".py"
      [] path = "index.js" -> ".js"
      [] path = "app.ts" -> ".ts"
      [] path = "App.jsx" -> ".jsx"
      [] path = "App.TSX" -> ".TSX"
      [] path = "Svc.java" -> ".java"
      [] path = "Prog.cs" -> ".cs"
      [] path = "Main.kt" -> ".kt"
      [] path = "Job.scala" -> ".scala"
      [] path = "notes.rb" -> ".rb"
      [] path = "archive.py.txt" -> ".txt"
      [] path = "Makefile" -> ""
      [] path = ".py" -> ""
      [] path = "pkg.go/README" -> ""
      [] OTHER -> ""

\* str.lower() of a suffix
LowerExt(ext) ==
    CASE ext = ".GO" -> ".go"
      [] ext = ".TSX" -> ".tsx"
      [] OTHER -> ext

ext_map ==
    [e \in {".go", ".py", ".js", ".ts", ".jsx", ".tsx", ".java", ".cs", ".kt", ".scala"} |->
        CASE e = ".go" -> "go"
          [] e = ".py" -> "python"
          [] e \in {".js", ".jsx"} -> "javascript"
          [] e \in {".ts", ".tsx"} -> "typescript"
          [] e \in {".java", ".kt", ".scala"} -> "java"
          [] e = ".cs" -> "csharp"]

\* the signature substrings a lexeme contains (case-sensitive)
SignaturesIn(lex) ==
    CASE lex = "package main" -> {"package main"}
      [] lex = "import (" -> {"import (", "import "}
      [] lex = "import " -> {"import "}
      [] lex \in DefHeaders -> {"def "}
      [] lex = "function " -> {"function "}
      [] lex = "const " -> {"const "}
      [] lex = "class " -> {"class "}
      [] lex = "public class " -> {"public ", "class "}
      [] OTHER -> {}

\* sig in code
Contains(sig, text) == \E i \in 1..Len(text) : sig \in SignaturesIn(text[i])

\* the content fallback with the python test ahead of the go test
Mut_detect_python_first(text) ==
    IF Contains("def ", text) /\ Contains("import ", text) THEN "python"
    ELSE IF Contains("package main", text) \/ Contains("import (", text) THEN "go"
    ELSE IF Contains("function ", text) \/ Contains("const ", text) THEN "javascript"
    ELSE IF Contains("class ", text) /\ Contains("public ", text) THEN "java"
    ELSE "unknown"

\* lines 83-93: detection from code patterns
DetectFromContent(text) ==
    IF Contains("package main", text) \/ Contains("import (", text) THEN "go"
    ELSE IF Contains("def ", text) /\ Contains("import ", text) THEN "python"
    ELSE IF Contains("function ", text) \/ Contains("const ", text) THEN "javascript"
    ELSE IF Contains("class ", text) /\ Contains("public ", text) THEN "java"
    ELSE "unknown"

\* _detect_language consulting the content before the extension table
Mut_detect_content_first(path, text) ==
    IF DetectFromContent(text) # "unknown" THEN DetectFromContent(text)
    ELSE IF LowerExt(Suffix(path)) \in DOMAIN ext_map
         THEN ext_map[LowerExt(Suffix(path))]
         ELSE "unknown"

\* _detect_language ending with a default language instead of "unknown"
Mut_detect_default_python(path, text) ==
    IF LowerExt(Suffix(path)) \in DOMAIN ext_map
    THEN ext_map[LowerExt(Suffix(path))]
    ELSE IF DetectFromContent(text) # "unknown" THEN DetectFromContent(text)
    ELSE "python"

_detect_language(path, text) ==
    LET file_ext == LowerExt(Suffix(path))
    IN IF file_ext \in DOMAIN ext_map THEN ext_map[file_ext]
       ELSE DetectFromContent(text)

(***************************************************************************)
(* _detect_language alone, over paths and file texts.                      *)
(***************************************************************************)
LangPaths == {"main.go", "MAIN.GO", "app.py", "index.js", "app.ts", "App.jsx",
              "App.TSX", "Svc.java", "Prog.cs", "Main.kt", "Job.scala",
              "notes.rb", "archive.py.txt", "Makefile", ".py", "pkg.go/README"}

SigTexts == UNION {[1..n -> SigLexemes] : n \in 0..MaxSigLen}

LangInit ==
    /\ pc = "idle"
    /\ AnalyzerIdle
    /\ file_path \in LangPaths
    /\ code \in SigTexts
    /\ language = ""
    /\ learned_patterns = <<>>
    /\ learned_detected = <<>>
    /\ fallback_detected = <<>>
    /\ detected_patterns = <<>>
    /\ processed_patterns = {}
    /\ calls = 0
    /\ rescanned = FALSE
    /\ threads = <<>>
    /\ arg_line_num = 0
    /\ arg_current_line = 0
    /\ function_name = ""
    /\ span_context = <<>>

DetectLanguage ==
    /\ pc = "idle"
    /\ pc' = "lang_done"
    /\ language' = _detect_language(file_path, code)
    /\ UNCHANGED <<code, file_path, detected_patterns, smartVars, multiVars,
                   arg_line_num, span_context, arg_current_line, function_name,
                   analyzerVars, scanVars>>

LangNext == DetectLanguage

SpecLang == LangInit /\ [][LangNext]_vars

(***************************************************************************)
(* Claims about language identification.                                   *)
(***************************************************************************)
LangDone == pc = "lang_done"
RecognizedExts == {".go", ".py", ".js", ".ts", ".jsx", ".tsx", ".java", ".cs",
                   ".kt", ".scala"}
TableLanguage(e) ==
    CASE e = ".go" -> "go"
      [] e = ".py" -> "python"
      [] e = ".js" -> "javascript"
      [] e = ".jsx" -> "javascript"
      [] e = ".ts" -> "typescript"
      [] e = ".tsx" -> "typescript"
      [] e = ".java" -> "java"
      [] e = ".kt" -> "java"
      [] e = ".scala" -> "java"
      [] e = ".cs" -> "csharp"
FileExt == LowerExt(Suffix(file_path))
\* the content signature of each language the fallback knows, in its order
ContentOrder == <<"go", "python", "javascript", "java">>
HasSignature(lang) ==
    CASE lang = "go" ->
           \E i \in 1..Len(code) : code[i] \in {"package main", "import ("}
      [] lang = "python" ->
           /\ \E i \in 1..Len(code) : code[i] \in DefHeaders
           /\ \E i \in 1..Len(code) : code[i] \in {"import ", "import ("}
      [] lang = "javascript" ->
           \E i \in 1..Len(code) : code[i] \in {"function ", "const "}
      [] lang = "java" ->
           /\ \E i \in 1..Len(code) : code[i] \in {"class ", "public class "}
           /\ \E i \in 1..Len(code) : code[i] = "public class "

\* C9: a path whose lower-cased extension is in the table gets the table's
\* language whatever the text is.
C9_ExtensionDecides ==
    LangDone /\ FileExt \in RecognizedExts => language = TableLanguage(FileExt)

\* C9 witness: a recognized extension wins over the content signature of
\* another language.
C9_Witness ==
    /\ LangDone
    /\ FileExt \in RecognizedExts
    /\ \E k \in 1..Len(ContentOrder) :
          HasSignature(ContentOrder[k]) /\ ContentOrder[k] # language

\* C10: without a recognized extension the result is the first language in
\* the order go, python, javascript, java whose signature is in the text, and
\* "unknown" when there is none.
C10_FirstSignatureWins ==
    LangDone /\ FileExt \notin RecognizedExts =>
        /\ \A k \in 1..Len(ContentOrder) :
              HasSignature(ContentOrder[k])
                  /\ (\A j \in 1..(k - 1) : ~HasSignature(ContentOrder[j]))
              => language = ContentOrder[k]
        /\ (\A k \in 1..Len(ContentOrder) : ~HasSignature(ContentOrder[k]))
              => language = "unknown"

\* C10 witness: no recognized extension, two languages' signatures in the
\* text, the earlier one returned.
C10_Witness ==
    /\ LangDone
    /\ FileExt \notin RecognizedExts
    /\ \E j, k \in 1..Len(ContentOrder) :
          /\ j < k
          /\ HasSignature(ContentOrder[j]) /\ HasSignature(ContentOrder[k])
          /\ language = ContentOrder[j]

(***************************************************************************)
(* MultiLanguagePatternDetector._extract_span_context                      *)
(* (src/multilang_analyzer.py).  An indicator is its expression and the    *)
(* lower-cased lexemes in which re.search finds it.                        *)
(***************************************************************************)
Ind(re, hits) == [re |-> re, hits |-> hits]

http_indicators == <<
    Ind("http\\.handler", {}), Ind("gin\\.context", {}), Ind("router\\.", {}),
    Ind("handler\\s*func", {}), Ind("http\\.request", {}), Ind("http\\.response", {}),
    Ind("\\.method\\s*==", {}), Ind("req\\.", {}), Ind("resp\\.", {}),
    Ind("get\\s*/|post\\s*/|put\\s*/|delete\\s*/", {"'get /users'", "'delete /users'"}),
    Ind("endpoint", {}), Ind("api", {"api"}) >>

db_indicators == <<
    Ind("sql\\.|db\\.|database", {"db.query("}),
    Ind("query|select|insert|update|delete", {"db.query(", "'delete /users'"}),
    Ind("prepare|execute|scan", {}), Ind("rows\\.|tx\\.|conn\\.", {}),
    Ind("gorm\\.", {}), Ind("mongo|redis|postgres|mysql", {}) >>

messaging_indicators == <<
    Ind("kafka|rabbitmq|pubsub|message|producer|consumer", {"kafka.publish("}),
    Ind("publish|subscribe|send|receive", {"kafka.publish("}),
    Ind("topic|queue|exchange", {}) >>

HttpHint == "HTTP span should follow 'METHOD /path' format"
DbHint == "Database span should follow 'OPERATION table' format"
MessagingHint == "Messaging span should follow 'send/receive destination' format"

\* surrounding_code.lower()
LowerText(text) == [i \in 1..Len(text) |-> Lower(text[i])]

\* re.search(pattern, context_text)
ReSearch(ind, context_text) ==
    \E i \in 1..Len(context_text) : context_text[i] \in ind.hits

Marked(context, type, flag, hint) ==
    [context EXCEPT !.type = type, ![flag] = TRUE, !.hints = Append(@, hint)]

RECURSIVE Mut_apply_no_break(_, _, _, _, _, _, _)
\* the indicator loop without its break
Mut_apply_no_break(indicators, i, context_text, context, type, flag, hint) ==
    IF i > Len(indicators) THEN context
    ELSE Mut_apply_no_break(indicators, i + 1, context_text,
             IF ReSearch(indicators[i], context_text)
             THEN Marked(context, type, flag, hint) ELSE context,
             type, flag, hint)

\* the indicator loop with the test on the indicator list instead of the text
Mut_apply_unconditional(indicators, i, context_text, context, type, flag, hint) ==
    IF indicators # <<>> THEN Marked(context, type, flag, hint) ELSE context

RECURSIVE ApplyIndicators(_, _, _, _, _, _, _)
\* for pattern in indicators: if re.search(pattern, context_text): ...; break
ApplyIndicators(indicators, i, context_text, context, type, flag, hint) ==
    IF i > Len(indicators) THEN context
    ELSE IF ReSearch(indicators[i], context_text)
         THEN Marked(context, type, flag, hint)
         ELSE ApplyIndicators(indicators, i + 1, context_text, context, type, flag, hint)

_extract_span_context(lines, line_no, lang) ==
    IF line_no <= 0 \/ line_no > Len(lines)
    THEN [type |-> "unknown", hints |-> <<>>, surrounding_code |-> <<>>]
    ELSE LET start_idx == Max(0, line_no - 5)
             end_idx == Min(Len(lines), line_no + 3)
             surrounding_code == Join(Slice(lines, start_idx, end_idx))
             context == [type |-> "unknown", hints |-> <<>>,
                         surrounding_code |-> surrounding_code,
                         is_http_handler |-> FALSE,
                         is_database_op |-> FALSE,
                         is_messaging |-> FALSE]
             context_text == LowerText(surrounding_code)
             after_http == ApplyIndicators(http_indicators, 1, context_text, context,
                                           "http", "is_http_handler", HttpHint)
             after_db == ApplyIndicators(db_indicators, 1, context_text, after_http,
                                         "database", "is_database_op", DbHint)
         IN ApplyIndicators(messaging_indicators, 1, context_text, after_db,
                            "messaging", "is_messaging", MessagingHint)

(***************************************************************************)
(* _extract_span_context alone, over line arrays and line numbers.         *)
(***************************************************************************)
CtxLines == {<<"pass">>, <<"API">>, <<"db.query(">>, <<"kafka.publish(">>,
             <<"tracer.Start(ctx,", "'DELETE /users'">>}

CtxLineArrays == UNION {[1..n -> CtxLines] : n \in 1..MaxCtxLines}

CtxInit ==
    /\ pc = "idle"
    /\ AnalyzerIdle
    /\ code \in {Join(ls) : ls \in CtxLineArrays}
    /\ arg_line_num \in 0..(MaxCtxLines + 1)
    /\ arg_current_line = 0
    /\ function_name = ""
    /\ arg_line_num <= Len(Split(code)) + 1
    /\ file_path = "main.go"
    /\ language = "go"
    /\ span_context = <<>>
    /\ learned_patterns = <<>>
    /\ learned_detected = <<>>
    /\ fallback_detected = <<>>
    /\ detected_patterns = <<>>
    /\ processed_patterns = {}
    /\ calls = 0
    /\ rescanned = FALSE
    /\ threads = <<>>

ExtractSpanContext ==
    /\ pc = "idle"
    /\ pc' = "ctx_done"
    /\ span_context' = _extract_span_context(Split(code), arg_line_num, language)
    /\ UNCHANGED <<code, file_path, detected_patterns, smartVars, multiVars,
                   arg_line_num, language, arg_current_line, function_name,
                   analyzerVars, scanVars>>

CtxNext == ExtractSpanContext

SpecContext == CtxInit /\ [][CtxNext]_vars

(***************************************************************************)
(* Claims about the context classifier.                                    *)
(***************************************************************************)
CtxDone == pc = "ctx_done"
CtxInRange == arg_line_num >= 1 /\ arg_line_num <= Len(Split(code))
\* some indicator of the group is found in the lower-cased window
GroupHit(group) ==
    \E k \in 1..Len(group) : \E i \in 1..Len(span_context.surrounding_code) :
        Lower(span_context.surrounding_code[i]) \in group[k].hits
HintCount(hint) ==
    Cardinality({k \in 1..Len(span_context.hints) : span_context.hints[k] = hint})

\* C6 as stated: a window in which an HTTP indicator and a database
\* indicator match (with or without a messaging indicator) classifies as
\* "http".
C6_HttpWinsOverDatabase ==
    CtxDone /\ CtxInRange /\ GroupHit(http_indicators) /\ GroupHit(db_indicators)
        => span_context.type = "http"

\* C7: a window in which no indicator matches gives type "unknown", no hints
\* and all three flags false.
C7_NoIndicatorIsUnknown ==
    CtxDone /\ CtxInRange
        /\ ~GroupHit(http_indicators) /\ ~GroupHit(db_indicators)
        /\ ~GroupHit(messaging_indicators)
        => /\ span_context.type = "unknown"
           /\ span_context.hints = <<>>
           /\ ~span_context.is_http_handler
           /\ ~span_context.is_database_op
           /\ ~span_context.is_messaging

\* C7 witness: an in-range line whose window of several lines holds no
\* indicator.
C7_Witness ==
    /\ CtxDone /\ CtxInRange
    /\ Len(span_context.surrounding_code) >= 3
    /\ ~GroupHit(http_indicators) /\ ~GroupHit(db_indicators)
    /\ ~GroupHit(messaging_indicators)
    /\ span_context.type = "unknown"

\* C8: for an in-range line each group that matches sets its own flag and
\* adds its hint once, a group that does not match adds nothing, so there are
\* as many hints as true flags.
C8_OneHintPerMatchedGroup ==
    CtxDone /\ CtxInRange =>
        /\ span_context.is_http_handler = GroupHit(http_indicators)
        /\ span_context.is_database_op = GroupHit(db_indicators)
        /\ span_context.is_messaging = GroupHit(messaging_indicators)
        /\ HintCount(HttpHint) = (IF GroupHit(http_indicators) THEN 1 ELSE 0)
        /\ HintCount(DbHint) = (IF GroupHit(db_indicators) THEN 1 ELSE 0)
        /\ HintCount(MessagingHint) = (IF GroupHit(messaging_indicators) THEN 1 ELSE 0)
        /\ Len(span_context.hints)
             = Cardinality({f \in {"is_http_handler", "is_database_op", "is_messaging"} :
                               span_context[f]})

\* C8 witness: two groups match, one of them through two of its indicators,
\* and the third does not.
C8_Witness ==
    /\ CtxDone /\ CtxInRange
    /\ GroupHit(db_indicators) /\ GroupHit(messaging_indicators)
    /\ ~GroupHit(http_indicators)
    /\ \E i \in 1..Len(span_context.surrounding_code) :
          /\ span_context.surrounding_code[i] \in db_indicators[1].hits
          /\ span_context.surrounding_code[i] \in db_indicators[2].hits
    /\ Len(span_context.hints) = 2

(***************************************************************************)
(* MultiLanguagePatternDetector: the pattern library, the function-scope   *)
(* resolver and find_patterns (src/multilang_analyzer.py).                 *)
(***************************************************************************)
NotNL == Sigma \ {NL}                              \* "." without re.DOTALL
NoComma == Sigma \ {",", "tracer.Start(ctx,", "TRACER.START(CTX,"}   \* [^,]
NoCloseParen == Sigma \ {")"}                      \* [^)]

Rule(name, regex, violation_type, description) ==
    [name |-> name, valid |-> TRUE, regex |-> regex,
     violation_type |-> violation_type, description |-> description,
     extract_name |-> 1]

_get_go_patterns == <<
    Rule("tracer_start_span",
         << <<Lit("tracer.Start(ctx,"), Cap(Quoted)>> >>,
         "span_naming", "Go tracer.Start() span creation"),
    Rule("tracer_start_with_options",
         << <<Lit("tracer.Start(ctx,"), Cap(Quoted), Star(NotNL),
              Lit("trace.WithSpanKind(")>> >>,
         "span_naming", "Go tracer.Start() with span options"),
    Rule("meter_counter",
         << <<Lit(".NewCounter("), Star(NoComma), Lit(","), Cap(Quoted)>> >>,
         "metric_naming", "Go meter counter creation"),
    Rule("meter_histogram",
         << <<Lit(".NewHistogram("), Star(NoComma), Lit(","), Cap(Quoted)>> >>,
         "metric_naming", "Go meter histogram creation"),
    Rule("span_set_attributes",
         << <<Lit("span.SetAttributes("), Star(NoCloseParen), One(AttributeCalls),
              Cap(Quoted)>> >>,
         "attribute_naming", "Go span.SetAttributes() usage"),
    Rule("attribute_string",
         << <<Lit("attribute.String("), Cap(Quoted), Star(NoCloseParen), Lit(")")>> >>,
         "attribute_naming", "Go attribute.String() usage"),
    Rule("attribute_int",
         << <<Lit("attribute.Int("), Cap(Quoted)>> >>,
         "attribute_naming", "Go attribute.Int() usage"),
    Rule("attribute_float",
         << <<Lit("attribute.Float64("), Cap(Quoted)>> >>,
         "attribute_naming", "Go attribute.Float() usage"),
    Rule("attribute_bool",
         << <<Lit("attribute.Bool("), Cap(Quoted)>> >>,
         "attribute_naming", "Go attribute.Bool() usage"),
    Rule("span_add_event",
         << <<Lit("span.AddEvent("), Cap(Quoted)>> >>,
         "event_naming", "Go span.AddEvent() usage"),
    Rule("producer_span",
         << <<Lit("tracer.Start(ctx,"), Lit("fmt.Sprintf("), Cap(FormatQuoted)>> >>,
         "span_naming", "Go messaging producer span with format string") >>

_get_python_patterns == <<
    Rule("tracer_start_span",
         << <<Lit("tracer.start_span("), Cap(Quoted)>> >>,
         "span_naming", "Python tracer.start_span() usage"),
    Rule("with_tracer_span",
         << <<Lit("with "), Lit("tracer.start_span("), Cap(Quoted)>> >>,
         "span_naming", "Python with tracer.start_span() context manager"),
    Rule("start_as_current_span",
         << <<Lit(".start_as_current_span("), Cap(Quoted)>> >>,
         "span_naming", "Python start_as_current_span() usage"),
    Rule("create_counter",
         << <<Lit(".create_counter("), Cap(Quoted)>> >>,
         "metric_naming", "Python create_counter() usage"),
    Rule("create_histogram",
         << <<Lit(".create_histogram("), Cap(Quoted)>> >>,
         "metric_naming", "Python create_histogram() usage") >>

_get_javascript_patterns == <<
    Rule("tracer_start_span",
         << <<Lit("tracer.startSpan("), Cap(Quoted)>> >>,
         "span_naming", "JavaScript tracer.startSpan() usage"),
    Rule("start_active_span",
         << <<Lit(".startActiveSpan("), Cap(Quoted)>> >>,
         "span_naming", "JavaScript startActiveSpan() usage"),
    Rule("create_counter",
         << <<Lit(".createCounter({name:"), Cap(Quoted)>> >>,
         "metric_naming", "JavaScript createCounter() usage") >>

_get_typescript_patterns == _get_javascript_patterns

_get_java_patterns == <<
    Rule("tracer_span_builder",
         << <<Lit("tracer"), Lit(".spanBuilder("), Cap(Quoted)>> >>,
         "span_naming", "Java tracer.spanBuilder() usage"),
    Rule("span_builder_start",
         << <<Lit(".spanBuilder("), Cap(Quoted)>> >>,
         "span_naming", "Java spanBuilder() usage"),
    Rule("counter_builder",
         << <<Lit(".counterBuilder("), Cap(Quoted)>> >>,
         "metric_naming", "Java counterBuilder() usage") >>

_get_csharp_patterns == <<
    Rule("activity_source_start",
         << <<Lit("activitySource.StartActivity("), Cap(Quoted)>> >>,
         "span_naming", "C# ActivitySource.StartActivity() usage"),
    Rule("create_counter",
         << <<Lit(".CreateCounter<long>("), Cap(Quoted)>> >>,
         "metric_naming", "C# CreateCounter<T>() usage") >>

language_patterns ==
    [l \in {"go", "python", "javascript", "typescript", "java", "csharp"} |->
        CASE l = "go" -> _get_go_patterns
          [] l = "python" -> _get_python_patterns
          [] l = "javascript" -> _get_javascript_patterns
          [] l = "typescript" -> _get_typescript_patterns
          [] l = "java" -> _get_java_patterns
          [] l = "csharp" -> _get_csharp_patterns]

\* look-back of MultiLanguagePatternDetector._get_function_name
MultiLookBack == 20

\* the first non-empty group of function_patterns[lang] searched in one lexeme
\* of a file of that language
\* ("" when it does not match there); the java/csharp shape \w*\s*(\w+)\s*\(
\* leaves the last word character before a "(" to its group
HeaderName(lang, lex) ==
    CASE lang = "go" /\ lex = "func handleCheckout" -> "handleCheckout"
      [] lang = "python" /\ lex \in DefHeaders -> DefName(lex)
      [] lang \in {"javascript", "typescript"}
            /\ lex \in {"function handler", "const handler ="} -> "handler"
      [] lang \in {"java", "csharp"} /\ lex = "public void checkout(" -> "checkout"
      [] lang \in {"java", "csharp"}
            /\ lex \in {".spanBuilder(", ".counterBuilder("} -> "r"
      [] lang \in {"java", "csharp"} /\ lex = "activitySource.StartActivity(" -> "y"
      [] lang \in {"java", "csharp"} /\ lex = "kafka.publish(" -> "h"
      [] OTHER -> ""

RECURSIVE MultiHeaderSearch(_, _, _)
\* re.search(pattern, line): the leftmost match
MultiHeaderSearch(lang, line, i) ==
    IF i > Len(line) THEN ""
    ELSE IF HeaderName(lang, line[i]) # "" THEN HeaderName(lang, line[i])
    ELSE MultiHeaderSearch(lang, line, i + 1)

\* the look-back loop with its stop index examined too
RECURSIVE Mut_scan_examines_stop(_, _, _, _)
Mut_scan_examines_stop(lines, i, stop, lang) ==
    IF i < stop THEN "global"
    ELSE IF i < Len(lines) /\ MultiHeaderSearch(lang, lines[i + 1], 1) # ""
         THEN MultiHeaderSearch(lang, lines[i + 1], 1)
         ELSE Mut_scan_examines_stop(lines, i - 1, stop, lang)

RECURSIVE MultiFunctionScan(_, _, _, _)
\* for i in range(i, stop, -1)
MultiFunctionScan(lines, i, stop, lang) ==
    IF i <= stop THEN "global"
    ELSE IF i < Len(lines) /\ MultiHeaderSearch(lang, lines[i + 1], 1) # ""
         THEN MultiHeaderSearch(lang, lines[i + 1], 1)
         ELSE MultiFunctionScan(lines, i - 1, stop, lang)

Multi_get_function_name(lines, current_line, lang) ==
    MultiFunctionScan(lines, current_line, Max(0, current_line - MultiLookBack), lang)

\* the text between the quotes of a quoted literal (group 1 of every rule)
Unquote(lex) ==
    CASE lex = "'GET /users'" -> "GET /users"
      [] lex = "'validate_item'" -> "validate_item"
      [] lex = "'user.id'" -> "user.id"
      [] lex = "'orders %s'" -> "orders %s"
      [] lex = "'DELETE /users'" -> "DELETE /users"
      [] OTHER -> ""

\* f"{file_path}:{line_num}:{match.start()}": for one file_path the string is
\* one-to-one with the pair of numbers
PatternId(path, line_no, start) == <<path, line_no, start>>

\* one candidate dict of find_patterns; offset is match.start(), which the
\* dict holds only through line_number and column
MultiCandidate(text, lines, rule, m, lang) ==
    LET line_no == CountNL(text, m.start) + 1
    IN [pattern_name |-> rule.name,
        line_number |-> line_no,
        column |-> m.start - RFindNL(text, m.start),
        offset |-> m.start,
        matched_text |-> Slice(text, m.start, m.end),
        extracted_name |-> IF m.cap > 0 THEN Unquote(text[m.cap]) ELSE "",
        violation_type |-> rule.violation_type,
        severity |-> "medium",
        description |-> rule.description,
        context_lines |-> Slice(lines, Max(0, line_no - 3), Min(Len(lines), line_no + 2)),
        function_name |-> Multi_get_function_name(lines, line_no - 1, lang),
        detection_method |-> "multi_language_pattern",
        language |-> lang,
        confidence |-> 85,
        span_context |-> _extract_span_context(lines, line_no, lang)]

\* the loop body without the processed_patterns test
Mut_match_without_seen_test(acc, path, text, lines, rule, m, lang) ==
    LET pattern_id == PatternId(path, CountNL(text, m.start) + 1, m.start)
    IN [seen |-> acc.seen \cup {pattern_id},
        out |-> Append(acc.out, MultiCandidate(text, lines, rule, m, lang))]

\* the loop body with a later match at a seen position replacing the
\* candidate of that position
Mut_match_last_rule_wins(acc, path, text, lines, rule, m, lang) ==
    LET pattern_id == PatternId(path, CountNL(text, m.start) + 1, m.start)
        cand == MultiCandidate(text, lines, rule, m, lang)
    IN IF pattern_id \in acc.seen
       THEN [seen |-> acc.seen,
             out |-> [k \in 1..Len(acc.out) |->
                        IF acc.out[k].offset = m.start THEN cand ELSE acc.out[k]]]
       ELSE [seen |-> acc.seen \cup {pattern_id}, out |-> Append(acc.out, cand)]

\* the body of "for match in matches": acc is (processed_patterns, detected_patterns)
MultiScanMatch(acc, path, text, lines, rule, m, lang) ==
    LET pattern_id == PatternId(path, CountNL(text, m.start) + 1, m.start)
    IN IF pattern_id \in acc.seen THEN acc
       ELSE [seen |-> acc.seen \cup {pattern_id},
             out |-> Append(acc.out, MultiCandidate(text, lines, rule, m, lang))]

RECURSIVE MultiScanMatches(_, _, _, _, _, _, _, _)
MultiScanMatches(acc, path, text, lines, rule, ms, k, lang) ==
    IF k > Len(ms) THEN acc
    ELSE MultiScanMatches(MultiScanMatch(acc, path, text, lines, rule, ms[k], lang),
                          path, text, lines, rule, ms, k + 1, lang)

\* the rule loop over the library in reverse order
RECURSIVE Mut_scan_rules_reversed(_, _, _, _, _, _, _)
Mut_scan_rules_reversed(acc, path, text, lines, rules, r, lang) ==
    IF r > Len(rules) THEN acc
    ELSE IF rules[r].valid
         THEN MultiScanMatches(
                  Mut_scan_rules_reversed(acc, path, text, lines, rules, r + 1, lang),
                  path, text, lines, rules[r],
                  FindIter(rules[r].regex, text, TRUE), 1, lang)
         ELSE Mut_scan_rules_reversed(acc, path, text, lines, rules, r + 1, lang)

RECURSIVE MultiScanRules(_, _, _, _, _, _, _)
\* "for pattern_name, pattern_info in patterns.items()": a rule whose
\* expression does not compile raises re.error before any match and is skipped
MultiScanRules(acc, path, text, lines, rules, r, lang) ==
    IF r > Len(rules) THEN acc
    ELSE MultiScanRules(
             IF rules[r].valid
             THEN MultiScanMatches(acc, path, text, lines, rules[r],
                                   FindIter(rules[r].regex, text, TRUE), 1, lang)
             ELSE acc,
             path, text, lines, rules, r + 1, lang)

\* find_patterns(code, file_path) from its first line: (processed_patterns,
\* detected_patterns) when it returns
\* find_patterns without its first statement
Mut_keep_processed(processed) == processed

\* self.processed_patterns.clear()
ClearProcessed(processed) == {}

\* find_patterns(code, file_path) on a detector whose processed_patterns is
\* processed: (processed_patterns, detected_patterns) when it returns
find_patterns(processed, text, path) ==
    LET lang == _detect_language(path, text)
        cleared == [seen |-> ClearProcessed(processed), out |-> <<>>]
    IN IF lang = "unknown" \/ lang \notin DOMAIN language_patterns THEN cleared
       ELSE MultiScanRules(cleared, path, text, Split(text), language_patterns[lang],
                           1, lang)

\* find_patterns on a detector that has scanned nothing yet
Multi_find_patterns(text, path) == find_patterns({}, text, path)

(***************************************************************************)
(* The multi-language detector as a state machine.                         *)
(***************************************************************************)
\* line templates of one source file per language, in file order
GoLines == <<
    <<"func handleCheckout">>,
    <<" ", "tracer.Start(ctx,", "'GET /users'", ")">>,
    <<" ", "tracer.Start(ctx,", "'validate_item'", ",", "trace.WithSpanKind(", ")">>,
    <<" ", "span.SetAttributes(", "attribute.String(", "'user.id'", ")", ")">>,
    <<" ", "TRACER.START(CTX,", "fmt.Sprintf(", "'orders %s'", ")">> >>

PyFileLines == <<
    <<"def validate_cart_items", ":">>,
    <<" ", "with ", "tracer.start_span(", "'validate_item'", ":">>,
    <<" ", ".create_counter(", "'user.id'", ")", " ", "db.query(">>,
    <<" ", "tracer.start_span(", "'GET /users'", ")">> >>

JavaLines == <<
    <<"public void checkout(">>,
    <<" ", "tracer", ".spanBuilder(", "'GET /users'", ")">>,
    <<" ", ".counterBuilder(", "'user.id'", ")">> >>

CsLines == <<
    <<"activitySource.StartActivity(", "'GET /users'", ")">>,
    <<" ", ".CreateCounter<long>(", "'orders %s'", ")">>,
    <<" ", "kafka.publish(">> >>

JsLines == <<
    <<"const handler =">>,
    <<" ", ".startActiveSpan(", "'GET /users'", ")">>,
    <<" ", ".createCounter({name:", "'user.id'", ")">> >>

TsLines == <<
    <<"function handler">>,
    <<" ", "tracer.startSpan(", "'DELETE /users'", ")">>,
    <<" ", "api">> >>

RECURSIVE PickLines(_, _, _)
\* the templates whose index is in picked, in file order
PickLines(templates, picked, i) ==
    IF i > Len(templates) THEN <<>>
    ELSE (IF i \in picked THEN <<templates[i]>> ELSE <<>>)
             \o PickLines(templates, picked, i + 1)

\* the files of at most MaxFileLines lines made of the templates
FilesOf(path, templates) ==
    {[path |-> path, text |-> Join(PickLines(templates, picked, 1))] :
        picked \in {ps \in SUBSET (1..Len(templates)) :
                        Cardinality(ps) \in 1..MaxFileLines}}

MultiInputs ==
    FilesOf("main.go", GoLines) \cup FilesOf("app.py", PyFileLines)
        \cup FilesOf("Svc.java", JavaLines) \cup FilesOf("Prog.cs", CsLines)
        \cup FilesOf("index.js", JsLines) \cup FilesOf("app.ts", TsLines)
        \cup {[path |-> "notes.rb",
               text |-> <<"with ", "tracer.start_span(", "'validate_item'", ":">>],
              [path |-> "Makefile",
               text |-> <<"package main", NL, "TRACER.START(CTX,", "'GET /users'", ")">>],
              [path |-> "Makefile",
               text |-> <<"tracer.Start(ctx,", "'GET /users'", ")">>]}

Init ==
    /\ pc = "idle"
    /\ AnalyzerIdle
    /\ processed_patterns = {}
    /\ calls = 0
    /\ rescanned = FALSE
    /\ threads = <<>>
    /\ code = <<>>
    /\ file_path = ""
    /\ language = ""
    /\ detected_patterns = <<>>
    /\ learned_patterns = <<>>
    /\ learned_detected = <<>>
    /\ fallback_detected = <<>>
    /\ arg_line_num = 0
    /\ arg_current_line = 0
    /\ function_name = ""
    /\ span_context = <<>>

\* MultiLanguagePatternDetector.find_patterns(code, file_path)
FindPatterns(text, path) ==
    /\ calls < MaxCalls
    /\ calls' = calls + 1
    /\ pc' = "multi_done"
    /\ code' = text
    /\ file_path' = path
    /\ language' = _detect_language(path, text)
    /\ rescanned' = (calls > 0 /\ text = code /\ path = file_path)
    /\ \E found \in {find_patterns(processed_patterns, text, path)} :
          /\ processed_patterns' = found.seen
          /\ detected_patterns' = found.out
    /\ UNCHANGED <<smartVars, arg_line_num, span_context, arg_current_line,
                   function_name, analyzerVars, threads,
                   scanVars>>

Next == \E f \in MultiInputs : FindPatterns(f.text, f.path)

Spec == Init /\ [][Next]_vars

(***************************************************************************)
(* Claims about the multi-language matcher.                                *)
(***************************************************************************)
MultiDone == pc = "multi_done"
\* the match starts of rule r of the file's library in the scanned file
RuleStarts(r) ==
    LET ms == FindIter(language_patterns[language][r].regex, code, TRUE)
    IN {ms[k].start : k \in 1..Len(ms)}

\* C4: no two candidates of one find_patterns call come from matches with
\* the same (line number, match-start offset).
C4_NoRepeatedPosition ==
    MultiDone =>
        \A i, j \in 1..Len(detected_patterns) :
            i # j => \/ detected_patterns[i].line_number # detected_patterns[j].line_number
                     \/ detected_patterns[i].offset # detected_patterns[j].offset

\* C4 witness: two rules of the library match at one offset of the scanned
\* file and the call returned several candidates.
C4_Witness ==
    /\ MultiDone
    /\ language \in DOMAIN language_patterns
    /\ \E r1, r2 \in 1..Len(language_patterns[language]) :
          r1 # r2 /\ RuleStarts(r1) \cap RuleStarts(r2) # {}
    /\ Len(detected_patterns) >= 2

(***************************************************************************)
(* The verdict channel: the text the language model answers with and how   *)
(* each analyzer decodes it.  A JSON value is [t, v]: its type and, for a  *)
(* number, its value in hundredths.                                        *)
(***************************************************************************)
\* a response is its text and whether a markdown json code fence wraps it
Response(fenced, body) == [fenced |-> fenced, body |-> body]
NotJson == Response(FALSE, "I cannot help")
NoViolation == Response(FALSE, "{\"has_violation\": false}")
FullText ==
    "{\"has_violation\": true, \"rule_violated\": \"r\", \"description\": \"d\", \"fix_suggestion\": \"f\", \"confidence\": 0.95}"
MediumText ==
    "{\"has_violation\": true, \"rule_violated\": \"r\", \"description\": \"d\", \"fix_suggestion\": \"f\", \"confidence\": 0.85}"
ThresholdText ==
    "{\"has_violation\": true, \"rule_violated\": \"r\", \"description\": \"d\", \"fix_suggestion\": \"f\", \"confidence\": 0.8}"
FullVerdict == Response(FALSE, FullText)
AtThreshold == Response(FALSE, ThresholdText)
Cleared == Response(FALSE, "{\"has_violation\": false, \"confidence\": 0.95}")
FencedVerdict == Response(TRUE, MediumText)
JsonArray == Response(FALSE, "[]")
TextConfidence == Response(FALSE, "{\"has_violation\": true, \"confidence\": \"high\"}")
BareVerdict == Response(FALSE, "{\"has_violation\": true, \"confidence\": 0.9}")
Truncated == Response(FALSE, "{\"has_violation\": true")
LowConfidence == Response(FALSE, "{\"has_violation\": true, \"confidence\": 0.75}")

Responses == {NotJson, NoViolation, FullVerdict, FencedVerdict, JsonArray,
              TextConfidence, BareVerdict, Truncated, LowConfidence, AtThreshold,
              Cleared}

JBool(b) == [t |-> "bool", v |-> b]
JNum(hundredths) == [t |-> "num", v |-> hundredths]
JStr(str) == [t |-> "str", v |-> str]

\* response.content.strip(), fence included, as one text: "" stands for a
\* fenced text, which no decoder below takes for JSON
RawText(response) == IF response.fenced THEN "" ELSE response.body

\* response_text.replace(<fence opener>, '').replace(<fence>, '').strip()
StripFences(response) == response.body

\* re.search(r'\{.*\}', response_text, re.DOTALL): group(0), "" when no match
SearchObject(text) ==
    IF text \in {NoViolation.body, FullText, MediumText, TextConfidence.body,
                 BareVerdict.body, LowConfidence.body, ThresholdText, Cleared.body}
    THEN text ELSE ""

\* json.loads(text): the value, or JSONDecodeError
JsonLoads(text) ==
    CASE text = NoViolation.body ->
            [t |-> "dict", v |-> [has_violation |-> JBool(FALSE)]]
      [] text = FullText ->
            [t |-> "dict",
             v |-> [has_violation |-> JBool(TRUE), rule_violated |-> JStr("r"),
                    description |-> JStr("d"), fix_suggestion |-> JStr("f"),
                    confidence |-> JNum(95)]]
      [] text = MediumText ->
            [t |-> "dict",
             v |-> [has_violation |-> JBool(TRUE), rule_violated |-> JStr("r"),
                    description |-> JStr("d"), fix_suggestion |-> JStr("f"),
                    confidence |-> JNum(85)]]
      [] text = TextConfidence.body ->
            [t |-> "dict",
             v |-> [has_violation |-> JBool(TRUE), confidence |-> JStr("high")]]
      [] text = BareVerdict.body ->
            [t |-> "dict",
             v |-> [has_violation |-> JBool(TRUE), confidence |-> JNum(90)]]
      [] text = LowConfidence.body ->
            [t |-> "dict",
             v |-> [has_violation |-> JBool(TRUE), confidence |-> JNum(75)]]
      [] text = ThresholdText ->
            [t |-> "dict",
             v |-> [has_violation |-> JBool(TRUE), rule_violated |-> JStr("r"),
                    description |-> JStr("d"), fix_suggestion |-> JStr("f"),
                    confidence |-> JNum(80)]]
      [] text = Cleared.body ->
            [t |-> "dict",
             v |-> [has_violation |-> JBool(FALSE), confidence |-> JNum(95)]]
      [] text = JsonArray.body -> [t |-> "list", v |-> <<>>]
      [] OTHER -> [t |-> "JSONDecodeError"]

\* dict.get(key, default)
Get(d, key, default) == IF key \in DOMAIN d THEN d[key] ELSE default

\* truth value of a JSON value in an if
Truthy(j) ==
    CASE j.t = "bool" -> j.v
      [] j.t = "num" -> j.v # 0
      [] j.t = "str" -> j.v # ""

None == [kind |-> "none"]
Returns(violation) == [kind |-> "violation", violation |-> violation]
Raises(exc) == [kind |-> "raise", exc |-> exc]

\* what one candidate's retrieval call and verdict call do
Outcome(retrieval, llm, content) ==
    [retrieval |-> retrieval, llm |-> llm, content |-> content]
RetrievalFails == Outcome("raises", "unused", NotJson)
VerdictCallFails == Outcome("ok", "raises", NotJson)
Outcomes ==
    {RetrievalFails, VerdictCallFails} \cup {Outcome("ok", "ok", r) : r \in Responses}

\* the verdict gate with the threshold of the later filter, above 0.7
Mut_validate_above_threshold(pattern, outcome) ==
    IF outcome.llm = "raises" THEN None
    ELSE LET json_str == SearchObject(StripFences(outcome.content))
             loaded == JsonLoads(json_str)
             confidence == Get(loaded.v, "confidence", JNum(0))
         IN IF json_str = "" THEN None
            ELSE IF loaded.t = "JSONDecodeError" THEN None
            ELSE IF ~Truthy(Get(loaded.v, "has_violation", JBool(FALSE))) THEN None
            ELSE IF confidence.t # "num" THEN None
            ELSE IF confidence.v <= 70 THEN None
            ELSE Returns(
                   [violation_id |-> <<pattern.violation_type, pattern.line_number>>,
                    severity |-> IF confidence.v > 90 THEN "high" ELSE "medium",
                    file_path |-> "current_file",
                    line_number |-> pattern.line_number,
                    column |-> pattern.column,
                    function_name |-> pattern.function_name,
                    code_snippet |-> pattern.matched_text,
                    violation_type |-> pattern.violation_type,
                    rule_violated |->
                        Get(loaded.v, "rule_violated", JStr("Naming convention violation")),
                    description |-> Get(loaded.v, "description", JStr("Naming issue")),
                    fix_suggestion |->
                        Get(loaded.v, "fix_suggestion",
                            JStr("Follow OpenTelemetry naming conventions")),
                    confidence |-> confidence,
                    detection_method |-> "rag_validated_enhanced",
                    language |-> pattern.language])

\* MultiLanguageOTelAnalyzer._validate_naming_convention from its try block:
\* every exception of the block is caught and turned into None
_validate_naming_convention(pattern, outcome) ==
    IF outcome.llm = "raises" THEN None
    ELSE LET json_str == SearchObject(StripFences(outcome.content))
             loaded == JsonLoads(json_str)
             confidence == Get(loaded.v, "confidence", JNum(0))
         IN IF json_str = "" THEN None
            ELSE IF loaded.t = "JSONDecodeError" THEN None
            ELSE IF ~Truthy(Get(loaded.v, "has_violation", JBool(FALSE))) THEN None
            ELSE IF confidence.t # "num" THEN None          \* TypeError, caught
            ELSE IF confidence.v < 80 THEN None
            ELSE Returns(
                   [violation_id |-> <<pattern.violation_type, pattern.line_number>>,
                    severity |-> IF confidence.v > 90 THEN "high" ELSE "medium",
                    file_path |-> "current_file",
                    line_number |-> pattern.line_number,
                    column |-> pattern.column,
                    function_name |-> pattern.function_name,
                    code_snippet |-> pattern.matched_text,
                    violation_type |-> pattern.violation_type,
                    rule_violated |->
                        Get(loaded.v, "rule_violated", JStr("Naming convention violation")),
                    description |-> Get(loaded.v, "description", JStr("Naming issue")),
                    fix_suggestion |->
                        Get(loaded.v, "fix_suggestion",
                            JStr("Follow OpenTelemetry naming conventions")),
                    confidence |-> confidence,
                    detection_method |-> "rag_validated_enhanced",
                    language |-> pattern.language])

\* SmartHybridSpanAnalyzer._validate_pattern_with_rag from its try block: only
\* json.JSONDecodeError and KeyError are caught
_validate_pattern_with_rag(pattern, outcome) ==
    IF outcome.llm = "raises" THEN Raises("VerdictCallError")
    ELSE LET loaded == JsonLoads(RawText(outcome.content))
         IN IF loaded.t = "JSONDecodeError" THEN None
            ELSE IF loaded.t # "dict" THEN Raises("AttributeError")   \* result.get
            ELSE IF ~Truthy(Get(loaded.v, "has_violation", JBool(FALSE))) THEN None
            ELSE Returns(
                   [violation_id |-> <<"SPAN", pattern.pattern_name, pattern.line_number>>,
                    severity |-> pattern.severity,
                    file_path |-> "current_file",
                    line_number |-> pattern.line_number,
                    column |-> pattern.column,
                    function_name |-> pattern.function_name,
                    code_snippet |-> pattern.matched_text,
                    violation_type |-> pattern.violation_type,
                    rule_violated |-> Get(loaded.v, "rule_violated", JStr(pattern.kb_rule)),
                    description |-> Get(loaded.v, "description", JStr("description")),
                    fix_suggestion |->
                        Get(loaded.v, "fix_suggestion",
                            JStr("Review code against OpenTelemetry best practices")),
                    confidence |-> Get(loaded.v, "confidence", JNum(pattern.confidence)),
                    detection_method |-> pattern.detection_method])

(***************************************************************************)
(* The two analyzers: detection, then one retrieval call and one verdict   *)
(* call per candidate.                                                     *)
(***************************************************************************)
\* the number of violations per value of one field (_create_summary)
CountBy(violations, field) ==
    [key \in {violations[k][field] : k \in 1..Len(violations)} |->
        Cardinality({k \in 1..Len(violations) : violations[k][field] = key})]

\* the summary with each count set to 1 in place of incremented
Mut_summary_sets_counts(violations) ==
    [total_violations |-> Len(violations),
     by_severity |-> [key \in DOMAIN CountBy(violations, "severity") |-> 1],
     by_type |-> [key \in DOMAIN CountBy(violations, "violation_type") |-> 1],
     by_language |-> [key \in DOMAIN CountBy(violations, "language") |-> 1]]

Multi_create_summary(violations) ==
    [total_violations |-> Len(violations),
     by_severity |-> CountBy(violations, "severity"),
     by_type |-> CountBy(violations, "violation_type"),
     by_language |-> CountBy(violations, "language")]

Smart_create_summary(violations) ==
    [total_violations |-> Len(violations),
     by_severity |-> CountBy(violations, "severity"),
     by_type |-> CountBy(violations, "violation_type"),
     by_detection_method |-> CountBy(violations, "detection_method")]

RECURSIVE MultiValidateAll(_, _, _, _)
\* "for pattern in detected_patterns" of analyze_telemetry_patterns: the
\* violations list, or the exception that leaves the loop
MultiValidateAll(detected, o, i, violations) ==
    IF i > Len(detected) THEN [raised |-> "none", violations |-> violations]
    ELSE IF o[i].retrieval = "raises"            \* similarity_search, outside any try
    THEN [raised |-> "RetrievalError", violations |-> violations]
    ELSE LET r == _validate_naming_convention(detected[i], o[i])
         IN MultiValidateAll(detected, o, i + 1,
                IF r.kind = "violation" /\ r.violation.confidence.v > 70
                THEN Append(violations, r.violation) ELSE violations)

RECURSIVE SmartValidateAll(_, _, _, _)
\* "for pattern in detected_patterns" of analyze_spans
SmartValidateAll(detected, o, i, violations) ==
    IF i > Len(detected) THEN [raised |-> "none", violations |-> violations]
    ELSE IF o[i].retrieval = "raises"
    THEN [raised |-> "RetrievalError", violations |-> violations]
    ELSE LET r == _validate_pattern_with_rag(detected[i], o[i])
         IN IF r.kind = "raise" THEN [raised |-> r.exc, violations |-> violations]
            ELSE IF r.kind = "none"
            THEN SmartValidateAll(detected, o, i + 1, violations)
            ELSE IF r.violation.confidence.t # "num"     \* violation.confidence > 0.7
            THEN [raised |-> "TypeError", violations |-> violations]
            ELSE SmartValidateAll(detected, o, i + 1,
                     IF r.violation.confidence.v > 70
                     THEN Append(violations, r.violation) ELSE violations)

RECURSIVE MultiCallLog(_, _, _)
\* the calls "for pattern in detected_patterns" of analyze_telemetry_patterns
\* makes: similarity_search, then llm.invoke in _validate_naming_convention
MultiCallLog(detected, o, i) ==
    IF i > Len(detected) THEN <<>>
    ELSE IF o[i].retrieval = "raises" THEN << <<"retrieval", i>> >>
    ELSE << <<"retrieval", i>>, <<"verdict", i>> >> \o MultiCallLog(detected, o, i + 1)

RECURSIVE SmartCallLog(_, _, _)
\* the calls "for pattern in detected_patterns" of analyze_spans makes
SmartCallLog(detected, o, i) ==
    IF i > Len(detected) THEN <<>>
    ELSE IF o[i].retrieval = "raises" THEN << <<"retrieval", i>> >>
    ELSE LET r == _validate_pattern_with_rag(detected[i], o[i])
         IN << <<"retrieval", i>>, <<"verdict", i>> >> \o
            (IF r.kind = "raise" \/ (r.kind = "violation" /\ r.violation.confidence.t # "num")
             THEN <<>>
             ELSE SmartCallLog(detected, o, i + 1))

\* the returned dict with the candidates counted after the verdict filter
Mut_result_counts_violations(path, text, detected, violations) ==
    [file_path |-> path,
     language |-> IF detected = <<>> THEN _detect_language(path, text)
                  ELSE detected[1].language,
     total_patterns |-> Len(violations),
     violations |-> violations,
     summary |-> IF detected = <<>> THEN [total_violations |-> 0]
                 ELSE Multi_create_summary(violations),
     kb_sections_used |-> IF detected = <<>> THEN {} ELSE {"kb.md"}]

\* the dict analyze_telemetry_patterns returns when it returns
MultiResult(path, text, detected, violations) ==
    IF detected = <<>>
    THEN [file_path |-> path,
          language |-> _detect_language(path, text),
          total_patterns |-> 0,
          violations |-> <<>>,
          summary |-> [total_violations |-> 0],
          kb_sections_used |-> {}]
    ELSE [file_path |-> path,
          language |-> detected[1].language,
          total_patterns |-> Len(detected),
          violations |-> violations,
          summary |-> Multi_create_summary(violations),
          kb_sections_used |-> {"kb.md"}]

\* the dict analyze_spans returns when it returns
SmartResult(path, detected, violations) ==
    IF detected = <<>>
    THEN [file_path |-> path,
          total_patterns |-> 0,
          violations |-> <<>>,
          summary |-> [total_violations |-> 0],
          kb_sections_used |-> {}]
    ELSE [file_path |-> path,
          total_patterns |-> Len(detected),
          violations |-> violations,
          summary |-> Smart_create_summary(violations),
          kb_sections_used |-> {"kb.md"}]

\* SmartPatternDetector.find_patterns as a function of the learned rules
Smart_find_patterns(learned, text) ==
    LET from_learned ==
            IF learned # <<>>
            THEN _detect_with_patterns(text, Split(text), learned, "learned_from_kb")
            ELSE <<>>
        from_fallback ==
            _detect_with_patterns(text, Split(text), fallback_patterns, "fallback_pattern")
    IN from_learned \o _merge_patterns(from_learned, from_fallback)

AnalyzerFiles == {
    [path |-> "notes.rb",
     text |-> <<"with ", "tracer.start_span(", "'validate_item'", ":">>],
    [path |-> "notes.rb",
     text |-> <<"import ", NL, "def checkout", ":", NL,
                " ", "tracer.start_span(", "'validate_item'", ")">>],
    [path |-> "notes.rb",
     text |-> <<"function ", NL, "tracer.start_span(", "'validate_item'", ")">>],
    [path |-> "main.go",
     text |-> <<"func handleCheckout", NL,
                " ", "tracer.Start(ctx,", "'validate_item'", ")", NL,
                " ", "span.AddEvent(", "'GET /users'", ")">>],
    [path |-> "main.go",
     text |-> <<" ", "tracer.Start(ctx,", "'GET /users'", ")", NL,
                " ", "span.SetAttributes(", "attribute.String(", "'user.id'", ")", ")">>],
    [path |-> "app.py",
     text |-> <<"def validate_cart_items", ":", NL,
                " ", "with ", "tracer.start_span(", "'validate_item'", ":">>],
    [path |-> "Svc.java", text |-> <<"public void checkout(">>] }

AnalyzerLearned ==
    {<<>>, <<CHOOSE r \in LearnedPool : r.name = "kb_span_naming">>}

AnalyzerInit ==
    /\ pc = "idle"
    /\ AnalyzerIdle
    /\ learned_patterns \in AnalyzerLearned
    /\ processed_patterns = {}
    /\ calls = 0
    /\ rescanned = FALSE
    /\ threads = <<>>
    /\ code = <<>>
    /\ file_path = ""
    /\ language = ""
    /\ detected_patterns = <<>>
    /\ learned_detected = <<>>
    /\ fallback_detected = <<>>
    /\ arg_line_num = 0
    /\ arg_current_line = 0
    /\ function_name = ""
    /\ span_context = <<>>

\* MultiLanguageOTelAnalyzer.analyze_telemetry_patterns(code, file_path)
AnalyzeTelemetryPatterns(text, path) ==
    /\ pc = "idle"
    /\ \E found \in {find_patterns(processed_patterns, text, path)} :
          /\ Len(found.out) <= MaxCandidates
          /\ processed_patterns' = found.seen
          /\ detected_patterns' = found.out
          /\ \E o \in [1..Len(found.out) -> Outcomes] :
                /\ outcomes' = o
                /\ call_log' = MultiCallLog(found.out, o, 1)
                /\ \E v \in {MultiValidateAll(found.out, o, 1, <<>>)} :
                      /\ raised' = v.raised
                      /\ result' = IF v.raised = "none"
                                   THEN MultiResult(path, text, found.out, v.violations)
                                   ELSE <<>>
    /\ pc' = "multi_analyzed"
    /\ calls' = calls + 1
    /\ rescanned' = FALSE
    /\ code' = text
    /\ file_path' = path
    /\ language' = _detect_language(path, text)
    /\ UNCHANGED <<smartVars, arg_line_num, span_context, arg_current_line,
                   function_name, threads, scanVars>>

\* SmartHybridSpanAnalyzer.analyze_spans(code, file_path)
AnalyzeSpans(text, path) ==
    /\ pc = "idle"
    /\ \E found \in {Smart_find_patterns(learned_patterns, text)} :
          /\ Len(found) <= MaxCandidates
          /\ detected_patterns' = found
          /\ \E o \in [1..Len(found) -> Outcomes] :
                /\ outcomes' = o
                /\ call_log' = SmartCallLog(found, o, 1)
                /\ \E v \in {SmartValidateAll(found, o, 1, <<>>)} :
                      /\ raised' = v.raised
                      /\ result' = IF v.raised = "none"
                                   THEN SmartResult(path, found, v.violations)
                                   ELSE <<>>
    /\ pc' = "smart_analyzed"
    /\ code' = text
    /\ file_path' = path
    /\ UNCHANGED <<smartVars, multiVars, pureVars, scanVars>>

AnalyzerNext ==
    \E f \in AnalyzerFiles :
        \/ AnalyzeTelemetryPatterns(f.text, f.path)
        \/ AnalyzeSpans(f.text, f.path)

SpecAnalyzer == AnalyzerInit /\ [][AnalyzerNext]_vars

(***************************************************************************)
(* Two find_patterns calls in progress on one detector.  A call is cut at  *)
(* the places where it reads or writes self.processed_patterns: the clear  *)
(* at its start and the membership test and add of every match.            *)
(***************************************************************************)
Callers == {"a", "b"}

\* the matches the rule loop goes through, in its order
RuleMatches(text, rules) ==
    Flatten([r \in 1..Len(rules) |->
                IF rules[r].valid
                THEN LET ms == FindIter(rules[r].regex, text, TRUE)
                     IN [k \in 1..Len(ms) |-> [rule |-> rules[r], m |-> ms[k]]]
                ELSE <<>>])

ParallelFiles == {
    [path |-> "main.go",
     text |-> <<"func handleCheckout", NL,
                " ", "tracer.Start(ctx,", "'validate_item'", ",", "trace.WithSpanKind(", ")">>],
    [path |-> "app.py",
     text |-> <<"def validate_cart_items", ":", NL,
                " ", "with ", "tracer.start_span(", "'validate_item'", ":">>],
    [path |-> "Svc.java",
     text |-> <<" ", "tracer", ".spanBuilder(", "'GET /users'", ")">>],
    [path |-> "notes.rb",
     text |-> <<"with ", "tracer.start_span(", "'validate_item'", ":">>] }

ParallelInit ==
    /\ pc = "idle"
    /\ AnalyzerIdle
    /\ threads = [t \in Callers |-> [pc |-> "idle"]]
    /\ processed_patterns = {}
    /\ calls = 0
    /\ rescanned = FALSE
    /\ code = <<>>
    /\ file_path = ""
    /\ language = ""
    /\ detected_patterns = <<>>
    /\ learned_patterns = <<>>
    /\ learned_detected = <<>>
    /\ fallback_detected = <<>>
    /\ arg_line_num = 0
    /\ arg_current_line = 0
    /\ function_name = ""
    /\ span_context = <<>>

ParallelUnchanged ==
    UNCHANGED <<pc, code, file_path, detected_patterns, smartVars, calls, rescanned,
                pureVars, analyzerVars, scanVars>>

\* lines 351-364: the clear, the language test and the set-up of the loop
BeginScan(t, f) ==
    /\ threads[t].pc = "idle"
    /\ processed_patterns' = ClearProcessed(processed_patterns)
    /\ LET lang == _detect_language(f.path, f.text)
       IN threads' = [threads EXCEPT ![t] =
             IF lang = "unknown" \/ lang \notin DOMAIN language_patterns
             THEN [pc |-> "returned", path |-> f.path, text |-> f.text,
                   language |-> lang, out |-> <<>>]
             ELSE [pc |-> "scanning", path |-> f.path, text |-> f.text,
                   language |-> lang, out |-> <<>>,
                   todo |-> RuleMatches(f.text, language_patterns[lang])]]
    /\ ParallelUnchanged

\* lines 371-411: the loop body for the next match
ScanMatch(t) ==
    /\ threads[t].pc = "scanning"
    /\ threads[t].todo # <<>>
    /\ LET th == threads[t]
           acc == MultiScanMatch([seen |-> processed_patterns, out |-> th.out],
                                 th.path, th.text, Split(th.text),
                                 Head(th.todo).rule, Head(th.todo).m, th.language)
       IN /\ processed_patterns' = acc.seen
          /\ threads' = [threads EXCEPT ![t] =
                [th EXCEPT !.out = acc.out, !.todo = Tail(th.todo)]]
    /\ ParallelUnchanged

\* lines 417-418: return detected_patterns
ReturnScan(t) ==
    /\ threads[t].pc = "scanning"
    /\ threads[t].todo = <<>>
    /\ threads' = [threads EXCEPT ![t] =
          [pc |-> "returned", path |-> threads[t].path, text |-> threads[t].text,
           language |-> threads[t].language, out |-> threads[t].out]]
    /\ UNCHANGED processed_patterns
    /\ ParallelUnchanged

ParallelNext ==
    \E t \in Callers :
        \/ \E f \in ParallelFiles : BeginScan(t, f)
        \/ ScanMatch(t)
        \/ ReturnScan(t)

SpecParallel == ParallelInit /\ [][ParallelNext]_vars

\* C14 as stated: each of two interleaved calls returns the list it returns
\* when run alone, and no returned list holds two candidates of the same
\* (line, offset).
C14_InterleavedScansAreIndependent ==
    \A t \in DOMAIN threads :
        threads[t].pc = "returned" =>
            /\ threads[t].out = Multi_find_patterns(threads[t].text, threads[t].path).out
            /\ \A i, j \in 1..Len(threads[t].out) :
                  i # j => \/ threads[t].out[i].line_number # threads[t].out[j].line_number
                           \/ threads[t].out[i].offset # threads[t].out[j].offset

(***************************************************************************)
(* Directory scans: the scan command of otel_cli.py and                    *)
(* RAGPipeline.analyze_directory.                                          *)
(***************************************************************************)
\* one analyze_telemetry_patterns call on an analyzer whose detector holds
\* processed: the exception or the returned dict, and the detector's set
MultiAnalysis(processed, text, path, o) ==
    LET found == find_patterns(processed, text, path)
        v == MultiValidateAll(found.out, o, 1, <<>>)
    IN [raised |-> v.raised,
        result |-> IF v.raised = "none"
                   THEN MultiResult(path, text, found.out, v.violations)
                   ELSE <<>>,
        seen |-> found.seen]

\* the scan loop with break in place of continue in its except clause
RECURSIVE Mut_scan_stops_at_exception(_, _, _)
Mut_scan_stops_at_exception(files, i, acc) ==
    IF i > Len(files) THEN acc
    ELSE IF ~files[i].readable THEN acc
    ELSE LET a == MultiAnalysis(acc.seen, files[i].text, files[i].path, files[i].o)
         IN IF a.raised # "none" THEN [results |-> acc.results, seen |-> a.seen]
            ELSE Mut_scan_stops_at_exception(files, i + 1,
                   [results |->
                       IF a.result.violations # <<>>
                       THEN [q \in DOMAIN acc.results \cup {files[i].path} |->
                               IF q = files[i].path THEN a.result ELSE acc.results[q]]
                       ELSE acc.results,
                    seen |-> a.seen])

RECURSIVE ScanLoop(_, _, _)
\* "for file_path in files_to_analyze" of scan: open and read, analyze, store
\* the result when it has violations; any Exception goes on to the next file
ScanLoop(files, i, acc) ==
    IF i > Len(files) THEN acc
    ELSE IF ~files[i].readable THEN ScanLoop(files, i + 1, acc)
    ELSE LET a == MultiAnalysis(acc.seen, files[i].text, files[i].path, files[i].o)
         IN IF a.raised # "none"
            THEN ScanLoop(files, i + 1, [results |-> acc.results, seen |-> a.seen])
            ELSE ScanLoop(files, i + 1,
                   [results |->
                       IF a.result.violations # <<>>
                       THEN [q \in DOMAIN acc.results \cup {files[i].path} |->
                               IF q = files[i].path THEN a.result ELSE acc.results[q]]
                       ELSE acc.results,
                    seen |-> a.seen])

\* what RAGPipeline.analyze_file does for one file: ValueError when the file
\* cannot be read, otherwise what the analyzer's analyze_code does
analyze_file(file) ==
    IF ~file.readable THEN [raised |-> "ValueError"]
    ELSE IF file.o[1].retrieval = "raises" THEN [raised |-> "RetrievalError"]
    ELSE [raised |-> "none", result |-> [file_path |-> file.path, code |-> file.text]]

RECURSIVE AnalyzeDirectoryLoop(_, _, _)
\* "for file_path in files_to_analyze" of analyze_directory
AnalyzeDirectoryLoop(files, i, res) ==
    IF i > Len(files) THEN res
    ELSE LET a == analyze_file(files[i])
         IN IF a.raised # "none" THEN AnalyzeDirectoryLoop(files, i + 1, res)
            ELSE AnalyzeDirectoryLoop(files, i + 1,
                   [q \in DOMAIN res \cup {files[i].path} |->
                       IF q = files[i].path THEN a.result ELSE res[q]])

AllOutcomes(outcome) == [i \in 1..MaxCandidates |-> outcome]

ScanFiles == {
    [path |-> "main.go",
     text |-> <<" ", "tracer.Start(ctx,", "'GET /users'", ")">>],
    [path |-> "app.py",
     text |-> <<" ", "tracer.start_span(", "'GET /users'", ")">>],
    [path |-> "Svc.java",
     text |-> <<" ", "tracer", ".spanBuilder(", "'GET /users'", ")">>],
    [path |-> "Prog.cs",
     text |-> <<"activitySource.StartActivity(", "'GET /users'", ")">>] }

\* a file of the directory: whether open/read succeeds, and what the
\* retrieval and verdict calls do for its candidates
ScanEntries ==
    {[path |-> f.path, text |-> f.text, readable |-> k[1], o |-> AllOutcomes(k[2])] :
        f \in ScanFiles,
        k \in {<<TRUE, Outcome("ok", "ok", FullVerdict)>>,
               <<TRUE, Outcome("ok", "ok", NoViolation)>>,
               <<FALSE, Outcome("ok", "ok", FullVerdict)>>,
               <<TRUE, RetrievalFails>>}}

\* rglob: at most MaxDirFiles files of different paths, in any order
Directories ==
    {d \in UNION {[1..n -> ScanEntries] : n \in 0..MaxDirFiles} :
        \A i, j \in DOMAIN d : i # j => d[i].path # d[j].path}

ScanInit ==
    /\ pc = "idle"
    /\ AnalyzerIdle
    /\ threads = <<>>
    /\ processed_patterns = {}
    /\ calls = 0
    /\ rescanned = FALSE
    /\ code = <<>>
    /\ file_path = ""
    /\ language = ""
    /\ detected_patterns = <<>>
    /\ learned_patterns = <<>>
    /\ learned_detected = <<>>
    /\ fallback_detected = <<>>
    /\ arg_line_num = 0
    /\ arg_current_line = 0
    /\ function_name = ""
    /\ span_context = <<>>

\* scan(ctx, directory, patterns, focus, output_format) of otel_cli.py
Scan(files) ==
    /\ pc = "idle"
    /\ pc' = "scanned"
    /\ directory' = files
    /\ \E acc \in {ScanLoop(files, 1, [results |-> <<>>, seen |-> processed_patterns])} :
          /\ results' = acc.results
          /\ processed_patterns' = acc.seen
    /\ UNCHANGED <<code, file_path, detected_patterns, smartVars, calls, rescanned,
                   threads, pureVars, analyzerVars, pipeline>>

\* RAGPipeline.analyze_directory(dir_path, file_patterns, query)
AnalyzeDirectory(files) ==
    /\ pc = "idle"
    /\ pc' = "directory_analyzed"
    /\ directory' = files
    /\ results' = AnalyzeDirectoryLoop(files, 1, <<>>)
    /\ UNCHANGED <<code, file_path, detected_patterns, smartVars, multiVars,
                   pureVars, analyzerVars, pipeline>>

ScanNext ==
    \E files \in Directories :
        \/ Scan(files)
        \/ AnalyzeDirectory(files)

SpecScan == ScanInit /\ [][ScanNext]_vars

(***************************************************************************)
(* RAGPipeline: initialize, the calls that need an analyzer, get_stats.    *)
(* The record holds self.analyzer (set or None), whether vector_store_path *)
(* exists, the number of *.md files under kb_path, and what the last call  *)
(* did.                                                                    *)
(***************************************************************************)
NotInitialized == "Pipeline not initialized"

\* RAGPipeline.__init__ over a disk state
NewPipeline(store_exists, kb_files) ==
    [analyzer |-> FALSE, store_exists |-> store_exists, kb_files |-> kb_files,
     initialized_once |-> FALSE, op |-> "__init__", raised |-> "none",
     rebuilt |-> FALSE, force_rebuild |-> FALSE, analyzed |-> FALSE,
     analyzer_before |-> FALSE, store_before |-> store_exists, status |-> ""]

\* what load_and_chunk_kb and build_vector_store can do in a rebuild
Builds == {"ok", "chunk_fails", "store_fails", "store_fails_after_create"}

\* initialize with self.analyzer assigned before the rebuild
Mut_initialize_sets_analyzer_first(p, force_rebuild, build, analyzer_ok) ==
    LET rebuild == ~p.store_exists \/ force_rebuild
        exc == IF ~analyzer_ok THEN "AnalyzerError"
               ELSE IF rebuild /\ p.kb_files = 0 THEN "ValueError"
               ELSE IF rebuild /\ build # "ok" THEN "BuildError"
               ELSE "none"
    IN [p EXCEPT !.op = "initialize", !.raised = exc, !.rebuilt = rebuild /\ analyzer_ok,
                 !.force_rebuild = force_rebuild, !.analyzed = FALSE,
                 !.analyzer_before = p.analyzer, !.store_before = p.store_exists,
                 !.analyzer = p.analyzer \/ analyzer_ok,
                 !.initialized_once = p.initialized_once \/ exc = "none",
                 !.store_exists =
                     p.store_exists
                       \/ (analyzer_ok /\ rebuild /\ p.kb_files > 0
                             /\ build \in {"ok", "store_fails_after_create"})]

\* RAGPipeline.initialize(force_rebuild): _build_knowledge_base when the store
\* is missing or force_rebuild, then self.analyzer = OTelAnalyzer(...)
initialize(p, force_rebuild, build, analyzer_ok) ==
    LET rebuild == ~p.store_exists \/ force_rebuild
        exc == IF rebuild /\ p.kb_files = 0 THEN "ValueError"
               ELSE IF rebuild /\ build # "ok" THEN "BuildError"
               ELSE IF ~analyzer_ok THEN "AnalyzerError"
               ELSE "none"
    IN [p EXCEPT !.op = "initialize", !.raised = exc, !.rebuilt = rebuild,
                 !.force_rebuild = force_rebuild, !.analyzed = FALSE,
                 !.analyzer_before = p.analyzer, !.store_before = p.store_exists,
                 !.analyzer = p.analyzer \/ exc = "none",
                 !.initialized_once = p.initialized_once \/ exc = "none",
                 !.store_exists =
                     p.store_exists
                       \/ (rebuild /\ p.kb_files > 0
                             /\ build \in {"ok", "store_fails_after_create"})]

PipelineCalls == {"analyze_file", "analyze_directory", "query_kb", "interactive_analysis"}

\* query_kb without the test of self.analyzer
Mut_call_query_unguarded(p, op, ok) ==
    [p EXCEPT !.op = op, !.analyzer_before = p.analyzer, !.store_before = p.store_exists,
              !.rebuilt = FALSE, !.force_rebuild = FALSE,
              !.raised = IF ~p.analyzer /\ op # "query_kb" THEN NotInitialized
                         ELSE IF ok /\ p.analyzer THEN "none" ELSE "CallError",
              !.analyzed = p.analyzer /\ ok]

\* analyze_file, analyze_directory, query_kb, interactive_analysis: each
\* starts with "if not self.analyzer: raise ValueError(...)"; ok says whether
\* what follows (reading the file, the analyzer's call) returns
pipeline_call(p, op, ok) ==
    [p EXCEPT !.op = op, !.analyzer_before = p.analyzer, !.store_before = p.store_exists,
              !.rebuilt = FALSE, !.force_rebuild = FALSE,
              !.raised = IF ~p.analyzer THEN NotInitialized
                         ELSE IF ok THEN "none" ELSE "CallError",
              !.analyzed = p.analyzer /\ ok]

\* RAGPipeline.get_stats: the "status" of the dict it returns
get_stats(p) ==
    [p EXCEPT !.op = "get_stats", !.analyzer_before = p.analyzer,
              !.store_before = p.store_exists, !.rebuilt = FALSE,
              !.force_rebuild = FALSE, !.raised = "none", !.analyzed = FALSE,
              !.status = IF ~p.store_exists THEN "not_initialized"
                         ELSE IF p.analyzer THEN "initialized" ELSE "loaded"]

PipelineInit ==
    /\ pc = "idle"
    /\ raised = "none" /\ outcomes = <<>> /\ result = <<>> /\ call_log = <<>>
    /\ directory = <<>> /\ results = <<>>
    /\ pipeline \in {NewPipeline(e, k) : e \in BOOLEAN, k \in 0..MaxKbFiles}
    /\ threads = <<>>
    /\ processed_patterns = {}
    /\ calls = 0
    /\ rescanned = FALSE
    /\ code = <<>>
    /\ file_path = ""
    /\ language = ""
    /\ detected_patterns = <<>>
    /\ learned_patterns = <<>>
    /\ learned_detected = <<>>
    /\ fallback_detected = <<>>
    /\ arg_line_num = 0
    /\ arg_current_line = 0
    /\ function_name = ""
    /\ span_context = <<>>

PipelineUnchanged ==
    UNCHANGED <<pc, code, file_path, detected_patterns, smartVars, multiVars, pureVars,
                analyzerVars, directory, results>>

Initialize(force_rebuild, build, analyzer_ok) ==
    /\ pipeline' = initialize(pipeline, force_rebuild, build, analyzer_ok)
    /\ PipelineUnchanged

PipelineCall(op, ok) ==
    /\ pipeline' = pipeline_call(pipeline, op, ok)
    /\ PipelineUnchanged

GetStats ==
    /\ pipeline' = get_stats(pipeline)
    /\ PipelineUnchanged

PipelineNext ==
    \/ \E f \in BOOLEAN, b \in Builds, a \in BOOLEAN : Initialize(f, b, a)
    \/ \E op \in PipelineCalls, ok \in BOOLEAN : PipelineCall(op, ok)
    \/ GetStats

SpecPipeline == PipelineInit /\ [][PipelineNext]_vars

(***************************************************************************)
(* _get_function_name alone, on files long enough for both look-backs.     *)
(***************************************************************************)
\* a function header of a language, as the lines of a file spell it
ScopeHeaders(lang) ==
    IF lang = "python" THEN <<"def validate_cart_items", "def checkout">>
    ELSE <<"func handleCheckout", "func handleCheckout">>

\* a file of n lines with a header on line h1 and another on line h2
\* (1-based; 0: no such header), every other line a statement
ScopeLines(lang, n, h1, h2) ==
    [i \in 1..n |->
        IF i = h1 THEN <<ScopeHeaders(lang)[1], ":">>
        ELSE IF i = h2 THEN <<" ", ScopeHeaders(lang)[2], ":">>
        ELSE <<" ", "pass">>]

\* the second header, when there is one, is one or two lines below the first
ScopeFiles(lang) ==
    UNION {{ScopeLines(lang, n, h1, h2) : n \in {2, MaxScopeLines},
                                          h2 \in {0, h1 + 1, h1 + 2}} :
             h1 \in 0..MaxScopeLines}

ScopeInit ==
    /\ pc = "idle"
    /\ AnalyzerIdle
    /\ code = <<>>
    /\ file_path = ""
    /\ detected_patterns = <<>>
    /\ learned_patterns = <<>>
    /\ learned_detected = <<>>
    /\ fallback_detected = <<>>
    /\ processed_patterns = {}
    /\ calls = 0
    /\ rescanned = FALSE
    /\ threads = <<>>
    /\ arg_line_num = 0
    /\ arg_current_line = 0
    /\ function_name = ""
    /\ language = ""
    /\ span_context = <<>>

ScopeUnchanged ==
    UNCHANGED <<file_path, detected_patterns, smartVars, multiVars, arg_line_num,
                span_context, analyzerVars, scanVars>>

\* MultiLanguagePatternDetector._get_function_name(lines, line, lang)
MultiGetFunctionName(lines, line, lang) ==
    /\ pc = "idle"
    /\ pc' = "multi_scope"
    /\ code' = Join(lines)
    /\ language' = lang
    /\ arg_current_line' = line
    /\ function_name' = Multi_get_function_name(lines, line, lang)
    /\ ScopeUnchanged

\* SmartPatternDetector._get_function_name(lines, line)
SmartGetFunctionName(lines, line) ==
    /\ pc = "idle"
    /\ pc' = "smart_scope"
    /\ code' = Join(lines)
    /\ language' = "python"
    /\ arg_current_line' = line
    /\ function_name' = Smart_get_function_name(lines, line)
    /\ ScopeUnchanged

ScopeNext ==
    \/ \E lang \in {"python", "go"} : \E lines \in ScopeFiles(lang) :
          \E line \in 0..Len(lines) : MultiGetFunctionName(lines, line, lang)
    \/ \E lines \in ScopeFiles("python") :
          \E line \in 0..Len(lines) : SmartGetFunctionName(lines, line)

SpecScope == ScopeInit /\ [][ScopeNext]_vars

(***************************************************************************)
(* Claims about repeated scans on one detector.                            *)
(***************************************************************************)
\* C13: whatever find_patterns calls came before on the same detector, the
\* list returned for a file is the list a fresh detector returns for it; in
\* particular a second scan of the same file returns the same list.
C13_ScanIsAsOnFreshDetector ==
    MultiDone => detected_patterns = Multi_find_patterns(code, file_path).out

\* C13 witness: a file with several candidates is scanned a second time in
\* a row, the ids of the first scan being in the set when the call starts.
C13_Witness ==
    /\ MultiDone
    /\ rescanned
    /\ Len(detected_patterns) >= 2
    /\ Cardinality(processed_patterns) >= 2

(***************************************************************************)
(* Claims about rules whose expression does not compile.                   *)
(***************************************************************************)
SmartCalled == pc \in {"smart_done", "smart_raised"}
\* the rule set without its rules of invalid expression
ValidRules(patterns) ==
    SelectSeqBy(patterns, {r \in 1..Len(patterns) : patterns[r].valid})

\* C12 as stated: with invalid rules in the learned set, the scan raises
\* nothing and returns exactly the candidates of the set without those rules.
C12_InvalidRuleIsSkipped ==
    SmartCalled =>
        /\ raised = "none"
        /\ learned_detected =
              _detect_with_patterns(code, Split(code), ValidRules(learned_patterns),
                                    "learned_from_kb")

(***************************************************************************)
(* Claims about the analyzers.                                             *)
(***************************************************************************)
MultiAnalyzed == pc = "multi_analyzed"
SmartAnalyzed == pc = "smart_analyzed"
EmptyUnknownResult ==
    /\ raised = "none"
    /\ result.total_patterns = 0
    /\ result.violations = <<>>
    /\ result.language = "unknown"

\* C11 as stated: for a file with the extension .rb, whatever its text, the
\* analysis returns total_patterns 0, no violations and language "unknown"
\* and raises nothing.
C11_RubyIsAlwaysUnknown ==
    MultiAnalyzed /\ Suffix(file_path) = ".rb" => EmptyUnknownResult

\* C11 amended: for a file with the extension .rb whose text holds none of
\* the language signatures of the content fallback, the analysis returns
\* total_patterns 0, no violations and language "unknown" and raises nothing.
C11_RubyWithoutSignatureIsUnknown ==
    MultiAnalyzed /\ Suffix(file_path) = ".rb" /\ DetectFromContent(code) = "unknown"
        => EmptyUnknownResult

\* C11 witness: a .rb file without signature has been analyzed, and its text
\* holds a call that the python library reports in a .py file.
C11_Witness ==
    /\ MultiAnalyzed /\ Suffix(file_path) = ".rb"
    /\ DetectFromContent(code) = "unknown"
    /\ Multi_find_patterns(code, "app.py").out # <<>>
    /\ EmptyUnknownResult

(***************************************************************************)
(* Claims about the position of a candidate.                               *)
(***************************************************************************)
NewlinesIn(text) == {i \in 1..Len(text) : text[i] = NL}

\* C15: every candidate's line_number is 1 plus the number of newlines of the
\* file text before the match start, and lies between 1 and the number of
\* lines of the file.
C15_LineNumberCountsNewlines ==
    MultiDone =>
        \A k \in 1..Len(detected_patterns) :
            LET c == detected_patterns[k]
            IN /\ c.line_number =
                     1 + Cardinality({i \in NewlinesIn(code) : i <= c.offset})
               /\ c.line_number >= 1
               /\ c.line_number <= 1 + Cardinality(NewlinesIn(code))

\* C15 witness: one scan yields a candidate on the first line and a candidate
\* on a later line of the file.
C15_Witness ==
    /\ MultiDone
    /\ \E i, j \in 1..Len(detected_patterns) :
          /\ detected_patterns[i].line_number = 1
          /\ detected_patterns[j].line_number > 1

\* 0-based offset of the first character of the line that holds offset off
LineStart(text, off) ==
    LET before == {i \in NewlinesIn(text) : i <= off}
    IN IF before = {} THEN 0
       ELSE CHOOSE i \in before : \A j \in before : j <= i

\* C16 as stated: every candidate's column is the 0-based offset of the match
\* start from the start of its line, so a match at the first character of a
\* line has column 0.
C16_ColumnIsZeroBased ==
    MultiDone =>
        \A k \in 1..Len(detected_patterns) :
            detected_patterns[k].column =
                detected_patterns[k].offset - LineStart(code, detected_patterns[k].offset)

\* C16 amended: every candidate's column is the 1-based position of the match
\* start in its line, so a match at the first character of a line has
\* column 1.
C16_ColumnIsOneBased ==
    MultiDone =>
        \A k \in 1..Len(detected_patterns) :
            detected_patterns[k].column =
                detected_patterns[k].offset - LineStart(code, detected_patterns[k].offset) + 1

\* C16 witness: one scan yields a candidate that starts at the first
\* character of the file and a candidate that starts inside a later line.
C16_Witness ==
    /\ MultiDone
    /\ \E i, j \in 1..Len(detected_patterns) :
          /\ detected_patterns[i].offset = 0
          /\ detected_patterns[i].column = 1
          /\ detected_patterns[j].line_number > 1
          /\ detected_patterns[j].column > 1

(***************************************************************************)
(* Claims about the function scope of a candidate.                         *)
(***************************************************************************)
\* the 1-based lines at or above line_no, within look_back lines of it, that
\* match the header pattern of the language
HeadersAbove(lines, line_no, look_back, lang) ==
    {i \in 1..line_no :
        /\ line_no - i < look_back
        /\ MultiHeaderSearch(lang, lines[i], 1) # ""}

\* C17 as stated: the function scope of a candidate is the name captured from
\* the nearest header line at or above the match within the look-back window,
\* and the sentinel 'global' when no line of the window is a header.
C17_ScopeIsNearestHeader ==
    MultiDone =>
        \A k \in 1..Len(detected_patterns) :
            LET c == detected_patterns[k]
                lines == Split(code)
                hdrs == HeadersAbove(lines, c.line_number, MultiLookBack, language)
            IN c.function_name =
                 IF hdrs = {} THEN "global"
                 ELSE MultiHeaderSearch(language,
                          lines[CHOOSE i \in hdrs : \A j \in hdrs : j <= i], 1)

(***************************************************************************)
(* Claims about the verdict and retrieval calls of the analyzers.          *)
(***************************************************************************)
Analyzed == MultiAnalyzed \/ SmartAnalyzed

\* the verdict responses that are not well-formed: no JSON, no JSON object,
\* a value of the wrong shape, or fields missing
Malformed == {NotJson, Truncated, JsonArray, TextConfidence, BareVerdict, LowConfidence}

\* both calls of every candidate of the file return
CallsReturn ==
    \A i \in 1..Len(detected_patterns) :
        outcomes[i].retrieval = "ok" /\ outcomes[i].llm = "ok"

\* C18 as stated: when the retrieval and verdict calls return, a candidate
\* whose verdict response is not well-formed yields no violation, and nothing
\* is raised to the caller of the analyzer.
C18_MalformedVerdictIsNoViolation ==
    Analyzed /\ CallsReturn =>
        /\ raised = "none"
        /\ Len(result.violations) <=
              Cardinality({i \in 1..Len(detected_patterns) :
                              outcomes[i].content \notin Malformed})

\* every candidate's verdict response is well-formed when its calls return
OnlyCallFailures ==
    \A i \in 1..Len(detected_patterns) :
        \/ outcomes[i] \in {RetrievalFails, VerdictCallFails}
        \/ outcomes[i] \in {Outcome("ok", "ok", NoViolation), Outcome("ok", "ok", FullVerdict)}

\* C19 as stated: when the retrieval call or the verdict call of a candidate
\* fails, the analyzer raises nothing and returns a result that counts every
\* candidate and holds the violations of the other candidates; the failing
\* candidate contributes none.
C19_CallFailureDegradesOneCandidate ==
    Analyzed /\ OnlyCallFailures =>
        /\ raised = "none"
        /\ result.total_patterns = Len(detected_patterns)
        /\ Len(result.violations) =
              Cardinality({i \in 1..Len(detected_patterns) :
                              outcomes[i] = Outcome("ok", "ok", FullVerdict)})

(***************************************************************************)
(* Claims about directory scans.                                           *)
(***************************************************************************)
Scanned == pc = "scanned"
DirectoryAnalyzed == pc = "directory_analyzed"

\* reading or analyzing the file raises an exception
FileFails(file) ==
    \/ ~file.readable
    \/ MultiAnalysis({}, file.text, file.path, file.o).raised # "none"

WithoutFailing(files) == SelectSeq(files, LAMBDA f : ~FileFails(f))

\* C20: the results a directory scan records are those of the scan of the
\* same directory without the files whose reading or analysis raises: an
\* exception for one file does not stop the scan and changes no other file's
\* result.
C20_ScanContinuesAfterFileFailure ==
    \A others \in {WithoutFailing(directory)} :
        /\ Scanned =>
              results = ScanLoop(others, 1, [results |-> <<>>, seen |-> {}]).results
        /\ DirectoryAnalyzed =>
              /\ results = AnalyzeDirectoryLoop(others, 1, <<>>)
              /\ DOMAIN results = {others[i].path : i \in DOMAIN others}

\* C20 witness: the scan met a file that raised before a file whose result,
\* with violations, it recorded.
C20_Witness ==
    /\ Scanned
    /\ Len(directory) >= 2
    /\ FileFails(directory[1])
    /\ directory[2].path \in DOMAIN results
    /\ results[directory[2].path].violations # <<>>

(***************************************************************************)
(* Claims about the result of an analysis.                                 *)
(***************************************************************************)
MultiReturned == MultiAnalyzed /\ raised = "none"

\* C21: the total_patterns of a file result is the number of candidates
\* find_patterns produced for the file, whatever the verdicts are; the
\* verdicts filter the violations list only.
C21_TotalCountsEveryCandidate ==
    MultiReturned =>
        /\ result.total_patterns = Len(Multi_find_patterns(code, file_path).out)
        /\ detected_patterns = Multi_find_patterns(code, file_path).out
        /\ Len(result.violations) <= result.total_patterns

\* C21 witness: a result counts two candidates, one of them with a verdict of
\* low confidence, and holds fewer violations than candidates.
C21_Witness ==
    /\ MultiReturned
    /\ result.total_patterns = 2
    /\ \E i \in 1..2 : outcomes[i].content = LowConfidence
    /\ Len(result.violations) < result.total_patterns

(***************************************************************************)
(* Claims about the confidence of a candidate.                             *)
(***************************************************************************)
\* C22: every learned_from_kb candidate has confidence 0.9 and every
\* fallback_pattern candidate has confidence 0.8, so in the merged list each
\* learned candidate has a higher confidence than each fallback candidate.
C22_ConfidenceFollowsProvenance ==
    SmartDone =>
        \A i \in 1..Len(detected_patterns) :
            /\ IsLearned(detected_patterns[i]) \/ IsFallback(detected_patterns[i])
            /\ IsLearned(detected_patterns[i]) => detected_patterns[i].confidence = 90
            /\ IsFallback(detected_patterns[i]) => detected_patterns[i].confidence = 80
            /\ \A j \in 1..Len(detected_patterns) :
                  IsLearned(detected_patterns[i]) /\ IsFallback(detected_patterns[j])
                      => detected_patterns[i].confidence > detected_patterns[j].confidence

\* C22 witness: a merged list holds a learned and a fallback candidate.
C22_Witness ==
    /\ SmartDone
    /\ \E i, j \in 1..Len(detected_patterns) :
          IsLearned(detected_patterns[i]) /\ IsFallback(detected_patterns[j])

(***************************************************************************)
(* Claims about the order of the retrieval and verdict calls.              *)
(***************************************************************************)
\* one retrieval call, then one verdict call, for each of n candidates in order
OneCallPairEach(n) ==
    [k \in 1..(2 * n) |->
        IF k % 2 = 1 THEN <<"retrieval", (k + 1) \div 2>> ELSE <<"verdict", k \div 2>>]

\* C23 as stated: analyze_telemetry_patterns makes no retrieval or verdict
\* call and returns its empty result when the language is unsupported or the
\* scan finds no candidate; otherwise it makes, for each candidate in list
\* order, exactly one retrieval call followed by exactly one verdict call.
C23_OneCallPairPerCandidate ==
    MultiAnalyzed =>
        \A found \in {Multi_find_patterns(code, file_path).out} :
            IF found = <<>>
            THEN /\ call_log = <<>>
                 /\ raised = "none"
                 /\ result.total_patterns = 0 /\ result.violations = <<>>
            ELSE call_log = OneCallPairEach(Len(found))

(***************************************************************************)
(* Claims about the RAGPipeline.                                           *)
(***************************************************************************)
\* C24: a call of analyze_file, analyze_directory, query_kb or
\* interactive_analysis made before any initialize() has returned raises the
\* 'Pipeline not initialized' error and performs no analysis; once an
\* initialize() has returned, these calls do not raise that error.
C24_CallsNeedInitialize ==
    pipeline.op \in PipelineCalls =>
        IF pipeline.initialized_once
        THEN pipeline.raised # NotInitialized
        ELSE pipeline.raised = NotInitialized /\ ~pipeline.analyzed

\* C24 witness: query_kb was refused on a pipeline whose vector store exists
\* and on which no initialize() has returned.
C24_Witness ==
    /\ pipeline.op = "query_kb"
    /\ ~pipeline.initialized_once
    /\ pipeline.store_exists
    /\ pipeline.raised = NotInitialized

(***************************************************************************)
(* Claims about the order of the candidate list.                           *)
(***************************************************************************)
Supported == language \in DOMAIN language_patterns
RulesAt(start) ==
    {r \in 1..Len(language_patterns[language]) : start \in RuleStarts(r)}
FirstRuleAt(start) ==
    language_patterns[language][CHOOSE r \in RulesAt(start) : \A q \in RulesAt(start) : r <= q]

\* C25: for every offset at which some rule of the selected library matches,
\* find_patterns returns exactly one candidate, and it carries the name and
\* the violation type of the first rule, in library order, that matches there.
C25_FirstRuleWinsAtSharedOffset ==
    MultiDone /\ Supported =>
        \A start \in 0..Len(code) :
            RulesAt(start) # {} =>
                \E i \in 1..Len(detected_patterns) :
                    /\ detected_patterns[i].offset = start
                    /\ detected_patterns[i].pattern_name = FirstRuleAt(start).name
                    /\ detected_patterns[i].violation_type = FirstRuleAt(start).violation_type
                    /\ \A j \in 1..Len(detected_patterns) :
                          detected_patterns[j].offset = start => j = i

\* C25 witness: two rules match at one offset and the candidate there has the
\* name of the first of them, which differs from the name of the second.
C25_Witness ==
    /\ MultiDone /\ Supported
    /\ \E start \in 0..Len(code) :
          /\ Cardinality(RulesAt(start)) >= 2
          /\ \E i \in 1..Len(detected_patterns) :
                /\ detected_patterns[i].offset = start
                /\ detected_patterns[i].pattern_name = FirstRuleAt(start).name

(***************************************************************************)
(* Claims about the lines the function-scope resolver examines.            *)
(***************************************************************************)
ScopeResolved == pc \in {"multi_scope", "smart_scope"}
ScopeLookBack == IF pc = "multi_scope" THEN MultiLookBack ELSE SmartLookBack
ScopeSentinel == IF pc = "multi_scope" THEN "global" ELSE "unknown"

\* the names the header pattern of the resolver captures on the lines of a
\* file, by 0-based index ("" where the line is no header)
ScopeNames(lines) ==
    [i \in 0..(Len(lines) - 1) |->
        IF pc = "multi_scope" THEN MultiHeaderSearch(language, lines[i + 1], 1)
        ELSE SmartHeaderMatch(lines[i + 1])]

\* the 0-based indices c, c-1, ..., max(0, c - look_back) + 1 that are lines
\* of a file of n lines
ScopeExamined(n) ==
    {i \in 0..(n - 1) :
        /\ i <= arg_current_line
        /\ i >= Max(0, arg_current_line - ScopeLookBack) + 1}

VerdictOf(outcome) == JsonLoads(SearchObject(StripFences(outcome.content))).v

\* the verdict of a candidate says has_violation true (as a truth value) with
\* a confidence of at least 0.8
VerdictPasses(outcome) ==
    /\ outcome.retrieval = "ok" /\ outcome.llm = "ok"
    /\ JsonLoads(SearchObject(StripFences(outcome.content))).t = "dict"
    /\ "has_violation" \in DOMAIN VerdictOf(outcome)
    /\ Truthy(VerdictOf(outcome).has_violation)
    /\ "confidence" \in DOMAIN VerdictOf(outcome)
    /\ VerdictOf(outcome).confidence.t = "num"
    /\ VerdictOf(outcome).confidence.v >= 80

\* the candidates a reported violation can come from: those at its position
CandidatesOf(violation) ==
    {i \in 1..Len(detected_patterns) :
        /\ detected_patterns[i].line_number = violation.line_number
        /\ detected_patterns[i].column = violation.column
        /\ detected_patterns[i].violation_type = violation.violation_type}

\* C27: every violation the multi-language analyzer reports comes from a
\* candidate whose verdict has has_violation true and confidence at least 0.8;
\* its confidence is that of the verdict, at least 0.8, and its severity is
\* "high" exactly when the confidence is above 0.9 and "medium" otherwise.
C27_ReportedViolationPassedTheGate ==
    MultiReturned =>
        \A k \in 1..Len(result.violations) :
            /\ \E i \in CandidatesOf(result.violations[k]) :
                  /\ VerdictPasses(outcomes[i])
                  /\ result.violations[k].confidence = VerdictOf(outcomes[i]).confidence
            /\ result.violations[k].confidence.v >= 80
            /\ result.violations[k].confidence.v > 70
            /\ result.violations[k].severity =
                  IF result.violations[k].confidence.v > 90 THEN "high" ELSE "medium"

\* C27 witness: of two candidates, the one whose verdict has confidence 0.8 is
\* reported, with severity "medium", and the one whose verdict has confidence
\* 0.75 is not.
C27_Witness ==
    /\ MultiReturned
    /\ Len(detected_patterns) = 2
    /\ outcomes[1].content = AtThreshold
    /\ outcomes[2].content = LowConfidence
    /\ Len(result.violations) = 1
    /\ result.violations[1].confidence = JNum(80)
    /\ result.violations[1].severity = "medium"

(***************************************************************************)
(* Claims about the violations list and its summary.                       *)
(***************************************************************************)
RECURSIVE SumCounts(_)
\* the sum of the counts of one summary table
SumCounts(counts) ==
    IF DOMAIN counts = {} THEN 0
    ELSE LET key == CHOOSE k \in DOMAIN counts : TRUE
         IN counts[key] + SumCounts([k \in DOMAIN counts \ {key} |-> counts[k]])

\* C28: in a result of analyze_telemetry_patterns with at least one candidate,
\* every violation belongs to one candidate, the violations follow the order
\* of their candidates with no candidate twice, there are at most
\* total_patterns of them, and summary.total_violations is their number and
\* the sum of the by_severity, of the by_type and of the by_language counts.
C28_SummaryCountsTheViolations ==
    MultiReturned /\ detected_patterns # <<>> =>
        /\ \A k \in 1..Len(result.violations) :
              Cardinality(CandidatesOf(result.violations[k])) = 1
        /\ \A k1, k2 \in 1..Len(result.violations) :
              k1 < k2 =>
                  \A i1 \in CandidatesOf(result.violations[k1]) :
                      \A i2 \in CandidatesOf(result.violations[k2]) : i1 < i2
        /\ Len(result.violations) <= result.total_patterns
        /\ result.summary.total_violations = Len(result.violations)
        /\ SumCounts(result.summary.by_severity) = Len(result.violations)
        /\ SumCounts(result.summary.by_type) = Len(result.violations)
        /\ SumCounts(result.summary.by_language) = Len(result.violations)

\* C28 witness: both candidates of a file are reported, with the same
\* severity, so that one by_severity count is 2.
C28_Witness ==
    /\ MultiReturned
    /\ Len(detected_patterns) = 2
    /\ Len(result.violations) = 2
    /\ result.violations[1].line_number < result.violations[2].line_number
    /\ \E key \in DOMAIN result.summary.by_severity :
          result.summary.by_severity[key] = 2

(***************************************************************************)
(* Claims about the order and the language tag of the candidate list.      *)
(***************************************************************************)
\* the place in the library of the rule a candidate names
RuleIndex(candidate) ==
    CHOOSE r \in 1..Len(language_patterns[language]) :
        language_patterns[language][r].name = candidate.pattern_name

\* C29: the candidates find_patterns returns are ordered by rule, in library
\* order, and within one rule by ascending match start; each carries the
\* language the Language Identifier returned for the file.
C29_ListIsInRuleThenOffsetOrder ==
    MultiDone /\ Supported =>
        /\ \A i, j \in 1..Len(detected_patterns) :
              i < j =>
                  \/ RuleIndex(detected_patterns[i]) < RuleIndex(detected_patterns[j])
                  \/ /\ RuleIndex(detected_patterns[i]) = RuleIndex(detected_patterns[j])
                     /\ detected_patterns[i].offset < detected_patterns[j].offset
        /\ \A i \in 1..Len(detected_patterns) :
              /\ detected_patterns[i].language = _detect_language(file_path, code)
              /\ detected_patterns[i].language = language

\* C29 witness: a candidate of an earlier rule stands before a candidate of a
\* later rule that matched nearer the start of the file.
C29_Witness ==
    /\ MultiDone /\ Supported
    /\ \E i, j \in 1..Len(detected_patterns) :
          /\ i < j
          /\ RuleIndex(detected_patterns[i]) < RuleIndex(detected_patterns[j])
          /\ detected_patterns[i].offset > detected_patterns[j].offset

(***************************************************************************)
(* Claims about RAGPipeline.initialize.                                    *)
(***************************************************************************)
\* the last call was an initialize whose rebuild raised
RebuildFailed ==
    pipeline.op = "initialize" /\ pipeline.raised \in {"ValueError", "BuildError"}

\* C30: initialize rebuilds the knowledge base exactly when the vector store
\* path does not exist or force_rebuild is true; a rebuild with no markdown
\* file raises; when the rebuild raises, initialize raises and leaves the
\* analyzer as it was, so a pipeline with no successful initialize so far
\* has no analyzer and get_stats does not report "initialized" for it.
C30_FailedRebuildLeavesAnalyzerUnset ==
    /\ pipeline.op = "initialize" =>
          /\ pipeline.rebuilt = (~pipeline.store_before \/ pipeline.force_rebuild)
          /\ pipeline.rebuilt /\ pipeline.kb_files = 0 => pipeline.raised = "ValueError"
    /\ RebuildFailed =>
          /\ pipeline.rebuilt
          /\ pipeline.analyzer = pipeline.analyzer_before
    /\ ~pipeline.initialized_once =>
          /\ ~pipeline.analyzer
          /\ pipeline.op = "get_stats" => pipeline.status # "initialized"

\* C30 witness: a forced rebuild over an existing store found no markdown
\* file, initialize raised and the pipeline has no analyzer.
C30_Witness ==
    /\ RebuildFailed
    /\ pipeline.force_rebuild /\ pipeline.store_before
    /\ pipeline.raised = "ValueError"
    /\ ~pipeline.analyzer

====
